---- MODULE Spec2Model ----
(***************************************************************************)
(* Verification model of fjpacheco/concurrent-programming.                 *)
(*                                                                         *)
(* Part A (assignment-1): the dispenser engine of the cafeteria: the       *)
(* pending and finished producer/consumer queues, the ContainersStates     *)
(* registry, the four containers and their mutexes, the N dispensers, the  *)
(* main producer thread, the SYSTEM-ALERT thread and its periodic child.   *)
(*                                                                         *)
(* Threads advance one critical section at a time.  A Condvar wait is      *)
(* explicit: a thread whose loop condition is false moves to a "_blocked"  *)
(* position and stays there until some thread calls notify_all on that     *)
(* condvar (no spurious wake-ups are assumed).  Quantities are f32 in the  *)
(* source; the model draws integer gram amounts, on which f32 arithmetic   *)
(* is exact.                                                               *)
(***************************************************************************)
EXTENDS Integers, Sequences, FiniteSets, Bags, TLC

\* ------------------------------------------------------------------ bounds
N_DISPENSERS == 2
MaxOrders == 2
MaxBottleneckOrders == 3
A_AGUA_CALIENTE == 2
C_CACAO == 1
M_GRANOS_MOLIDOS == 2
G_GRANOS == 1
E_ESPUMA_LECHE == 2
L_LECHE_FRIA == 2

\* ------------------------------------------------------------------ enums
Ingredients == {"Agua", "CafeMolido", "EspumaLeche", "Cacao"}

Free == "Free"
Taken == "Taken"
NoEnoughResource == "NoEnoughResource"

Completed == "Completed"
InProgress == "InProgress"
NoEnoughResourceContainer == "NoEnoughResourceContainer"

Dispensers == 1..N_DISPENSERS
MainThread == N_DISPENSERS + 1
AlertThread == N_DISPENSERS + 2
PeriodicThread == N_DISPENSERS + 3
Threads == Dispensers \cup {MainThread, AlertThread, PeriodicThread}

VARIABLES
    orders,          \* id -> Order (owned by whoever holds the id)
    requested,       \* id -> the amounts of the order file line (never changes)
    pendingSome,     \* pair_vecdeque_orders: Option is Some
    pendingQ,        \* pair_vecdeque_orders: the VecDeque (head = front)
    finishedQ,       \* pair_vecdeque_system_alert: the VecDeque (head = front)
    ordersFinished,  \* orders_finished of the SYSTEM-ALERT thread (head = front)
    states,          \* ContainersStates
    conteiners,      \* Conteiners: ingredient -> container fields
    cmutex,          \* ingredient -> dispenser holding the container Mutex, 0 if free
    smutex,          \* thread holding the ContainersStates Mutex, 0 if free
    pcD,             \* dispenser -> position
    orderD,          \* dispenser -> id of the order it processes, 0 if none
    chosenD,         \* dispenser -> container it selected, "none" if none
    pcMain,          \* position of the main (producer) thread
    nextIdx,         \* index of the next order insert_orders pushes
    pcAlert,         \* position of the SYSTEM-ALERT thread
    heldAlert,       \* order wait_order returned, 0 if none
    pcPeriodic,      \* position of the periodic child thread
    \* ---- part B (assignment-2), the distributed ledger
    pedidos,              \* the order lines of the branches' files, one coffee machine each
    pc_cafetera,          \* order -> position of its coffee machine
    udp_al_nodo,          \* order -> datagram of its machine on its way to the Nodo
    cuentas,              \* node -> Nodo.cuentas
    transacciones_resta,  \* node -> Nodo.transacciones_resta
    transacciones_suma,   \* node -> Nodo.transacciones_suma
    id_orden,             \* node -> Nodo.id_orden
    nodo_conectado,       \* node -> Nodo.conectado
    nodo_vivo,            \* node -> the Nodo actor has not panicked
    stream_cordinador,    \* node -> write half of the Nodo's socket: "abierto" or "cerrado"
    tcp_nodo_handler,     \* node -> lines written by the Nodo, not yet read by its NodoHandler
    tcp_handler_nodo,     \* node -> lines written by the NodoHandler, not yet read by the Nodo
    handler_vivo,         \* node -> its NodoHandler actor runs
    handler_conectado,    \* node -> NodoHandler.conectado
    handler_escritura,    \* node -> write half of the NodoHandler's socket
    mailbox,              \* mailbox of the Coordinador actor
    addr_nodos,           \* Coordinador.addr_nodos (the keys)
    transacciones,        \* Coordinador.transacciones
    cola,                 \* Coordinador.cola
    coordinador_conectado,\* Coordinador.conectado
    coordinador_vivo,     \* the Coordinador actor has not panicked
    desconexiones,        \* DESCONECTAR datagrams the operator has sent so far
    \* ---- part B, the allocation of transaction ids
    pedido_a,             \* (id_nodo, id_cafetera, id_orden) of one allocation
    pedido_b,             \* (id_nodo, id_cafetera, id_orden) of another allocation
    id_transaccion_a,     \* id the Nodo built for pedido_a, 0 before it is built
    id_transaccion_b,     \* id the Nodo built for pedido_b, 0 before it is built
    \* ---- part B, the server processes, their BullyListeners and connections
    proceso_vivo,         \* server -> its process runs (it was not killed)
    estado,               \* server -> BullyListener.estado
    bully_conectado,      \* server -> BullyListener.conectado
    soy_coordinador,      \* server -> BullyListener.soy_coordinador
    timeouts,             \* server -> sleeps of StartElection that have not ended
    start_election,       \* server -> StartElection messages in the BullyListener's mailbox
    set_state_bully,      \* server -> SetState messages in the BullyListener's mailbox
    udp_bully,            \* bag of the datagrams between BullyListeners, in flight
    id_coordinador,       \* server -> Nodo.id_coordinador
    new_coordinator,      \* server -> ReceiveNewCoordinator messages in the Nodo's mailbox
    sede,                 \* server whose Coordinador the connections go to
    conexion,             \* server -> server its Nodo's last socket is connected to
    por_aceptar,          \* Nodos that connected and wait for the accept of the listener, in order
    caidas,               \* servers killed so far
    conexiones            \* CONECTAR datagrams the operator has sent so far

cafeVars == <<orders, requested, pendingSome, pendingQ, finishedQ, ordersFinished,
              states, conteiners, cmutex, smutex, pcD, orderD, chosenD, pcMain,
              nextIdx, pcAlert, heldAlert, pcPeriodic>>

ledgerVars == <<pedidos, pc_cafetera, udp_al_nodo, cuentas,
                transacciones_resta, transacciones_suma, id_orden, nodo_conectado,
                nodo_vivo, stream_cordinador, tcp_nodo_handler, tcp_handler_nodo,
                handler_vivo, handler_conectado, handler_escritura, mailbox, addr_nodos, transacciones,
                cola, coordinador_conectado, coordinador_vivo, desconexiones>>

idVars == <<pedido_a, pedido_b, id_transaccion_a, id_transaccion_b>>

bullyVars == <<proceso_vivo, estado, bully_conectado, soy_coordinador, timeouts,
               start_election, set_state_bully, udp_bully, id_coordinador, new_coordinator,
               sede, conexion, por_aceptar, caidas, conexiones>>

extraVars == <<idVars, bullyVars>>

vars == <<cafeVars, ledgerVars, extraVars>>

\* ------------------------------------------------------------------ Order
IngredientOf(v) ==
    IF v > 0 THEN [st |-> "NotApplied", v |-> v] ELSE [st |-> "Absent", v |-> 0]

\* Order::new_with_id: ingredients with amount <= 0 are filtered out
new_with_id(cm, lc, c, ac) ==
    [ingredientes |-> [t \in Ingredients |->
                         CASE t = "CafeMolido" -> IngredientOf(cm)
                           [] t = "EspumaLeche" -> IngredientOf(lc)
                           [] t = "Cacao" -> IngredientOf(c)
                           [] OTHER -> IngredientOf(ac)],
     status |-> InProgress]

\* Order::get(...).unwrap_or(0.0): Applied -> 0, NotApplied(v) -> v, otherwise 0
get_or_zero(order, tipo) ==
    IF order.ingredientes[tipo].st = "NotApplied" THEN order.ingredientes[tipo].v ELSE 0

can_satisfy(order, tipo, quantity_available) ==
    /\ 0 < get_or_zero(order, tipo)
    /\ get_or_zero(order, tipo) <= quantity_available

requiere(order, tipo) ==
    /\ order.ingredientes[tipo].st # "Absent"
    /\ get_or_zero(order, tipo) > 0

\* Order::apply: the amount that was NotApplied, 0 otherwise
applied_quantity(order, tipo) ==
    IF order.ingredientes[tipo].st = "NotApplied" THEN order.ingredientes[tipo].v ELSE 0

order_apply(order, tipo) ==
    [order EXCEPT !.ingredientes[tipo] = [st |-> "Applied", v |-> applied_quantity(order, tipo)]]

set_no_enough_resource_container(order, tipo) ==
    [order EXCEPT !.ingredientes[tipo] = [st |-> "NoEnough", v |-> 0]]

\* the fold of get_updated_status does not depend on the iteration order
updated_status(order) ==
    IF \E t \in Ingredients : order.ingredientes[t].st = "NoEnough"
    THEN NoEnoughResourceContainer
    ELSE IF \E t \in Ingredients : order.ingredientes[t].st = "NotApplied"
         THEN InProgress
         ELSE Completed

get_updated_status(order) == [order EXCEPT !.status = updated_status(order)]

\* ------------------------------------------------------------------ containers
Capacity(tipo) ==
    CASE tipo = "Agua" -> A_AGUA_CALIENTE
      [] tipo = "Cacao" -> C_CACAO
      [] tipo = "CafeMolido" -> M_GRANOS_MOLIDOS
      [] OTHER -> E_ESPUMA_LECHE

InitialRecharge(tipo) ==
    CASE tipo = "CafeMolido" -> G_GRANOS
      [] tipo = "EspumaLeche" -> L_LECHE_FRIA
      [] OTHER -> 0

ContainerKind(tipo) ==
    CASE tipo = "Agua" -> "Infinity"
      [] tipo = "Cacao" -> "NoRechargable"
      [] OTHER -> "Rechargable"

ConteinersDefault ==
    [t \in Ingredients |->
        [quantity |-> Capacity(t), state |-> Free, quantity_to_recharge |-> InitialRecharge(t)]]

ContainersStatesDefault ==
    [principal_conteiners |-> [t \in Ingredients |-> [state |-> Free, quantity |-> Capacity(t)]],
     quantity_to_recharge |-> [t \in {"CafeMolido", "EspumaLeche"} |-> InitialRecharge(t)]]

StateByQuantity(q) == IF q > 0 THEN Free ELSE NoEnoughResource

StateByQuantityOrRecharge(q, r) == IF q > 0 \/ r > 0 THEN Free ELSE NoEnoughResource

\* mutant: an apply that cannot serve the order throws away what is left
NoRechargable_apply_refusal_spills(c, order, tipo) ==
    IF ~(c.quantity >= 0 /\ can_satisfy(order, tipo, c.quantity))
    THEN <<[c EXCEPT !.quantity = 0, !.state = StateByQuantity(0)],
           set_no_enough_resource_container(order, tipo)>>
    ELSE LET q == c.quantity - applied_quantity(order, tipo)
         IN <<[c EXCEPT !.quantity = q, !.state = StateByQuantity(q)],
              order_apply(order, tipo)>>

\* mutant: the line self.quantity -= applied is forgotten
NoRechargable_apply_without_decrement(c, order, tipo) ==
    IF ~(c.quantity >= 0 /\ can_satisfy(order, tipo, c.quantity))
    THEN <<[c EXCEPT !.state = StateByQuantity(c.quantity)],
           set_no_enough_resource_container(order, tipo)>>
    ELSE <<[c EXCEPT !.state = StateByQuantity(c.quantity)], order_apply(order, tipo)>>

\* NoRechargableConteiner::apply_ingredient: <<container, order>> afterwards
NoRechargable_apply_ingredient(c, order, tipo) ==
    IF ~(c.quantity >= 0 /\ can_satisfy(order, tipo, c.quantity))
    THEN <<[c EXCEPT !.state = StateByQuantity(c.quantity)],
           set_no_enough_resource_container(order, tipo)>>
    ELSE LET q == c.quantity - applied_quantity(order, tipo)
         IN <<[c EXCEPT !.quantity = q, !.state = StateByQuantity(q)],
              order_apply(order, tipo)>>

\* mutant: the reload fills the container but never takes the pool below 0
reload_container_capped(c, tipo) ==
    LET need_to_reload == Capacity(tipo) - c.quantity
    IN [c EXCEPT !.quantity = c.quantity + need_to_reload,
                 !.quantity_to_recharge =
                     IF c.quantity_to_recharge >= need_to_reload
                     THEN c.quantity_to_recharge - need_to_reload ELSE 0]

\* RechargableConteiner::reload_container
reload_container(c, tipo) ==
    LET need_to_reload == Capacity(tipo) - c.quantity
    IN [c EXCEPT !.quantity = c.quantity + need_to_reload,
                 !.quantity_to_recharge = c.quantity_to_recharge - need_to_reload]

\* mutant: the reload test forgets what is left in the container
can_reload_from_pool_only(c, order, tipo) ==
    /\ c.quantity_to_recharge >= 0
    /\ can_satisfy(order, tipo, c.quantity_to_recharge)

can_reload_for_order(c, order, tipo) ==
    /\ c.quantity_to_recharge >= 0
    /\ can_satisfy(order, tipo, c.quantity_to_recharge + c.quantity)

\* RechargableConteiner::apply_ingredient
Rechargable_apply_ingredient(c, order, tipo) ==
    IF ~can_satisfy(order, tipo, Capacity(tipo))
    THEN <<[c EXCEPT !.state = Free], set_no_enough_resource_container(order, tipo)>>
    ELSE IF ~(c.quantity >= 0 /\ can_satisfy(order, tipo, c.quantity))
            /\ ~can_reload_for_order(c, order, tipo)
         THEN <<[c EXCEPT !.state = StateByQuantityOrRecharge(c.quantity, c.quantity_to_recharge)],
                set_no_enough_resource_container(order, tipo)>>
         ELSE LET r == IF c.quantity >= 0 /\ can_satisfy(order, tipo, c.quantity)
                       THEN c ELSE reload_container(c, tipo)
                  q == r.quantity - applied_quantity(order, tipo)
              IN <<[r EXCEPT !.quantity = q,
                             !.state = StateByQuantityOrRecharge(q, r.quantity_to_recharge)],
                   order_apply(order, tipo)>>

\* InfinityConteiner::apply_ingredient (it has no state field: it stays Free)
Infinity_apply_ingredient(c, order, tipo) ==
    IF ~can_satisfy(order, tipo, Capacity(tipo))
    THEN <<c, set_no_enough_resource_container(order, tipo)>>
    ELSE LET r == IF c.quantity >= 0 /\ can_satisfy(order, tipo, c.quantity)
                  THEN c ELSE [c EXCEPT !.quantity = Capacity(tipo)]
         IN <<[r EXCEPT !.quantity = r.quantity - applied_quantity(order, tipo)],
              order_apply(order, tipo)>>

\* dyn ApplyContainer dispatch
apply_ingredient(c, order, tipo) ==
    CASE ContainerKind(tipo) = "Infinity" -> Infinity_apply_ingredient(c, order, tipo)
      [] ContainerKind(tipo) = "NoRechargable" -> NoRechargable_apply_ingredient(c, order, tipo)
      [] OTHER -> Rechargable_apply_ingredient(c, order, tipo)

\* ------------------------------------------------------------------ ContainersStates
set_state(st, quantity_in_conteiner, state, tipo) ==
    [st EXCEPT !.principal_conteiners[tipo] = [state |-> state, quantity |-> quantity_in_conteiner]]

set_taken_state(st, c, tipo) == set_state(st, c.quantity, Taken, tipo)

\* mutant: every container reports Free when it is given back
update_state_always_free(st, c, tipo) ==
    CASE ContainerKind(tipo) = "Rechargable" ->
             [set_state(st, c.quantity, Free, tipo)
                 EXCEPT !.quantity_to_recharge[tipo] = c.quantity_to_recharge]
      [] OTHER -> set_state(st, c.quantity, Free, tipo)

\* update_and_notify_state of the three container kinds (the notify_all is in the action)
update_state(st, c, tipo) ==
    CASE ContainerKind(tipo) = "Infinity" -> set_state(st, c.quantity, Free, tipo)
      [] ContainerKind(tipo) = "NoRechargable" -> set_state(st, c.quantity, c.state, tipo)
      [] OTHER -> [set_state(st, c.quantity, c.state, tipo)
                     EXCEPT !.quantity_to_recharge[tipo] = c.quantity_to_recharge]

\* mutant: the is_free() filter is forgotten
find_rng_any_container_for(st, order) ==
    {t \in Ingredients : requiere(order, t)}

find_rng_any_container_free_for(st, order) ==
    {t \in Ingredients : st.principal_conteiners[t].state = Free /\ requiere(order, t)}

\* mutant: the order.requiere(ingrediente) test is forgotten
order_has_a_free_container(st, order) ==
    \E t \in Ingredients : st.principal_conteiners[t].state = Free

order_is_processable(st, order) ==
    \E t \in Ingredients : st.principal_conteiners[t].state = Free /\ requiere(order, t)

\* mutant: a depleted container only cancels an order that no Free container can serve
container_without_resource_unless_processable(st, order) ==
    /\ \E t \in Ingredients :
          st.principal_conteiners[t].state = NoEnoughResource /\ requiere(order, t)
    /\ ~order_is_processable(st, order)

container_without_resource_for(st, order) ==
    \E t \in Ingredients :
        st.principal_conteiners[t].state = NoEnoughResource /\ requiere(order, t)

\* ------------------------------------------------------------------ condvars
\* cvar.notify_all() of pair_vecdeque_orders
NotifyPendingD(pc) ==
    [d \in Dispensers |-> IF pc[d] = "wait_pedido_blocked" THEN "wait_pedido" ELSE pc[d]]

NotifyPendingMain(pc) ==
    CASE pc = "insert_blocked" -> "insert"
      [] pc = "poweroff_blocked" -> "poweroff"
      [] OTHER -> pc

\* cvar.notify_all() of pair_vecdeque_system_alert
NotifyFinishedD(pc) ==
    [d \in Dispensers |-> IF pc[d] = "notify_blocked" THEN "notify" ELSE pc[d]]

NotifyFinishedAlert(pc) == IF pc = "wait_order_blocked" THEN "wait_order" ELSE pc

\* cvar.notify_all() of pair_conteiners_states
NotifyStatesD(pc) ==
    [d \in Dispensers |-> IF pc[d] = "wait_states_blocked" THEN "wait_states" ELSE pc[d]]

PushFront(q, x) == <<x>> \o q
Back(q) == q[Len(q)]
PopBack(q) == SubSeq(q, 1, Len(q) - 1)

\* ------------------------------------------------------------------ main thread
\* the vector of orders read_orders built: one catalogue entry per file line
OrderCatalogue ==
    { new_with_id(0, 0, 0, 0),    \* an empty line, or "A0"
      new_with_id(0, 0, 1, 0),    \* C1
      new_with_id(0, 0, 1, 1),    \* A1 C1
      new_with_id(2, 0, 0, 0),    \* M2
      new_with_id(1, 2, 0, 0),    \* M1 E2
      new_with_id(0, 0, 0, 3),    \* A3
      new_with_id(0, 3, 0, 0),    \* E3
      new_with_id(0, 0, 2, 0) }   \* C2

RequestedOf(order) == [t \in Ingredients |-> get_or_zero(order, t)]

InitThreads ==
    /\ pendingSome = TRUE
    /\ pendingQ = <<>>
    /\ finishedQ = <<>>
    /\ ordersFinished = <<>>
    /\ states = ContainersStatesDefault
    /\ conteiners = ConteinersDefault
    /\ cmutex = [t \in Ingredients |-> 0]
    /\ smutex = 0
    /\ pcD = [d \in Dispensers |-> "wait_pedido"]
    /\ orderD = [d \in Dispensers |-> 0]
    /\ chosenD = [d \in Dispensers |-> "none"]
    /\ pcMain = "insert"
    /\ nextIdx = 1
    /\ pcAlert = "wait_order"
    /\ heldAlert = 0
    /\ pcPeriodic = "sleep"

\* the order lines of the cocoa bottleneck tests ("A5 M2 C1 E3", ...): one gram of
\* cocoa each, the rest from containers that do not run out
BottleneckCatalogue ==
    { new_with_id(0, 0, 1, 0),    \* C1
      new_with_id(0, 0, 1, 1) }   \* A1 C1

\* enough one-ingredient orders to fill the finished queue past its limit
BackpressureOrders == [i \in 1..(N_DISPENSERS + 2) |-> new_with_id(0, 0, 0, 1)]

\* three orders of ground coffee: the first empties the container, the second
\* has it reloaded from the beans, the third takes what the reload left
ReloadOrders ==
    << new_with_id(M_GRANOS_MOLIDOS, 0, 0, 0), new_with_id(1, 0, 0, 0),
       new_with_id(1, 0, 0, 0) >>

InitCafe ==
    /\ \/ \E m \in 0..MaxOrders : orders \in [1..m -> OrderCatalogue]
       \/ \E m \in 1..MaxBottleneckOrders : orders \in [1..m -> BottleneckCatalogue]
       \/ orders = BackpressureOrders
       \/ orders = ReloadOrders
    /\ requested = [i \in DOMAIN orders |-> RequestedOf(orders[i])]
    /\ InitThreads

total_orders_to_process == Len(orders)

\* mutant: the limit is tested with > as for the finished queue
PendingOverLimit(q) == Len(q) > N_DISPENSERS

PendingFull(q) == Len(q) >= N_DISPENSERS

\* insert_orders: one iteration of the for loop, or its exit
insert_orders ==
    /\ pcMain = "insert"
    /\ IF nextIdx > Len(orders)
       THEN /\ pcMain' = "poweroff"
            /\ UNCHANGED <<pendingQ, nextIdx, pcD>>
       ELSE IF PendingFull(pendingQ)
            THEN /\ pcMain' = "insert_blocked"
                 /\ UNCHANGED <<pendingQ, nextIdx, pcD>>
            ELSE /\ pendingQ' = PushFront(pendingQ, nextIdx)
                 /\ nextIdx' = nextIdx + 1
                 /\ pcD' = NotifyPendingD(pcD)
                 /\ pcMain' = "insert"
    /\ UNCHANGED <<orders, requested, pendingSome, finishedQ, ordersFinished, states,
                   conteiners, cmutex, smutex, orderD, chosenD, pcAlert, heldAlert,
                   pcPeriodic>>
    /\ UNCHANGED <<ledgerVars, extraVars>>

\* send_signal_poweroff_to_dispensers
send_signal_poweroff_to_dispensers ==
    /\ pcMain = "poweroff"
    /\ IF pendingSome /\ pendingQ # <<>>
       THEN /\ pcMain' = "poweroff_blocked"
            /\ UNCHANGED <<pendingSome, pcD>>
       ELSE /\ pendingSome' = FALSE
            /\ pcD' = NotifyPendingD(pcD)
            /\ pcMain' = "join_dispensers"
    /\ UNCHANGED <<orders, requested, pendingQ, finishedQ, ordersFinished, states,
                   conteiners, cmutex, smutex, orderD, chosenD, nextIdx, pcAlert,
                   heldAlert, pcPeriodic>>
    /\ UNCHANGED <<ledgerVars, extraVars>>

join_dispensers ==
    /\ pcMain = "join_dispensers"
    /\ \A d \in Dispensers : pcD[d] = "done"
    /\ pcMain' = "join_system_alert"
    /\ UNCHANGED <<orders, requested, pendingSome, pendingQ, finishedQ, ordersFinished,
                   states, conteiners, cmutex, smutex, pcD, orderD, chosenD, nextIdx,
                   pcAlert, heldAlert, pcPeriodic>>
    /\ UNCHANGED <<ledgerVars, extraVars>>

join_system_alert ==
    /\ pcMain = "join_system_alert"
    /\ pcAlert = "done"
    /\ pcMain' = "done"
    /\ UNCHANGED <<orders, requested, pendingSome, pendingQ, finishedQ, ordersFinished,
                   states, conteiners, cmutex, smutex, pcD, orderD, chosenD, nextIdx,
                   pcAlert, heldAlert, pcPeriodic>>
    /\ UNCHANGED <<ledgerVars, extraVars>>

\* ------------------------------------------------------------------ dispenser
wait_pedido(d) ==
    /\ pcD[d] = "wait_pedido"
    /\ IF pendingSome /\ pendingQ = <<>>
       THEN /\ pcD' = [pcD EXCEPT ![d] = "wait_pedido_blocked"]
            /\ UNCHANGED <<pendingQ, orderD, pcMain>>
       ELSE IF pendingSome
            THEN /\ orderD' = [orderD EXCEPT ![d] = Back(pendingQ)]
                 /\ pendingQ' = PopBack(pendingQ)
                 /\ pcD' = [NotifyPendingD(pcD) EXCEPT ![d] = "wait_states"]
                 /\ pcMain' = NotifyPendingMain(pcMain)
            ELSE /\ pcD' = [NotifyPendingD(pcD) EXCEPT ![d] = "done"]
                 /\ pcMain' = NotifyPendingMain(pcMain)
                 /\ UNCHANGED <<pendingQ, orderD>>
    /\ UNCHANGED <<orders, requested, pendingSome, finishedQ, ordersFinished, states,
                   conteiners, cmutex, smutex, chosenD, nextIdx, pcAlert, heldAlert,
                   pcPeriodic>>
    /\ UNCHANGED <<ledgerVars, extraVars>>

\* wait_while_containers_states, then find_rng_any_container_free_for and lock_for
\* (process_order lines 267-292).  When the Container mutex is taken the dispenser
\* keeps the ContainersStates guard and blocks in lock_for.
wait_while_containers_states(d) ==
    /\ pcD[d] = "wait_states"
    /\ smutex = 0
    /\ LET order == orders[orderD[d]] IN
       IF ~(container_without_resource_for(states, order) \/ order_is_processable(states, order))
       THEN /\ pcD' = [pcD EXCEPT ![d] = "wait_states_blocked"]
            /\ UNCHANGED <<orders, states, cmutex, smutex, chosenD>>
       ELSE IF container_without_resource_for(states, order)
            THEN /\ orders' = [orders EXCEPT ![orderD[d]].status = NoEnoughResourceContainer]
                 /\ pcD' = [pcD EXCEPT ![d] = "notify"]
                 /\ UNCHANGED <<states, cmutex, smutex, chosenD>>
            ELSE \E tipo \in find_rng_any_container_free_for(states, order) :
                    /\ chosenD' = [chosenD EXCEPT ![d] = tipo]
                    /\ IF cmutex[tipo] = 0
                       THEN /\ cmutex' = [cmutex EXCEPT ![tipo] = d]
                            /\ states' = set_taken_state(states, conteiners[tipo], tipo)
                            /\ pcD' = [pcD EXCEPT ![d] = "apply"]
                            /\ UNCHANGED smutex
                       ELSE /\ smutex' = d
                            /\ pcD' = [pcD EXCEPT ![d] = "lock_for"]
                            /\ UNCHANGED <<cmutex, states>>
                    /\ UNCHANGED orders
    /\ UNCHANGED <<requested, pendingSome, pendingQ, finishedQ, ordersFinished, conteiners,
                   orderD, pcMain, nextIdx, pcAlert, heldAlert, pcPeriodic>>
    /\ UNCHANGED <<ledgerVars, extraVars>>

\* mutant: set_taken_state borrows the ContainersStates guard instead of consuming it
lock_for_keeps_states_guard(d) ==
    /\ pcD[d] = "lock_for"
    /\ cmutex[chosenD[d]] = 0
    /\ cmutex' = [cmutex EXCEPT ![chosenD[d]] = d]
    /\ states' = set_taken_state(states, conteiners[chosenD[d]], chosenD[d])
    /\ pcD' = [pcD EXCEPT ![d] = "apply"]
    /\ UNCHANGED <<orders, requested, pendingSome, pendingQ, finishedQ, ordersFinished,
                   conteiners, smutex, orderD, chosenD, pcMain, nextIdx, pcAlert,
                   heldAlert, pcPeriodic>>
    /\ UNCHANGED <<ledgerVars, extraVars>>

\* Conteiners::lock_for returns once the Container mutex is free; set_taken_state
\* then consumes (releases) the ContainersStates guard
lock_for(d) ==
    /\ pcD[d] = "lock_for"
    /\ cmutex[chosenD[d]] = 0
    /\ cmutex' = [cmutex EXCEPT ![chosenD[d]] = d]
    /\ states' = set_taken_state(states, conteiners[chosenD[d]], chosenD[d])
    /\ smutex' = 0
    /\ pcD' = [pcD EXCEPT ![d] = "apply"]
    /\ UNCHANGED <<orders, requested, pendingSome, pendingQ, finishedQ, ordersFinished,
                   conteiners, orderD, chosenD, pcMain, nextIdx, pcAlert, heldAlert,
                   pcPeriodic>>
    /\ UNCHANGED <<ledgerVars, extraVars>>

\* container_available.apply_ingredient(&mut order), under the Container mutex only
dispenser_apply_ingredient(d) ==
    /\ pcD[d] = "apply"
    /\ LET tipo == chosenD[d]
           r == apply_ingredient(conteiners[tipo], orders[orderD[d]], tipo)
       IN /\ conteiners' = [conteiners EXCEPT ![tipo] = r[1]]
          /\ orders' = [orders EXCEPT ![orderD[d]] = r[2]]
    /\ pcD' = [pcD EXCEPT ![d] = "relock"]
    /\ UNCHANGED <<requested, pendingSome, pendingQ, finishedQ, ordersFinished, states,
                   cmutex, smutex, orderD, chosenD, pcMain, nextIdx, pcAlert, heldAlert,
                   pcPeriodic>>
    /\ UNCHANGED <<ledgerVars, extraVars>>

\* process_order lines 298-325: lock ContainersStates again, update_and_notify_state,
\* get_updated_status; the Container guard is dropped at the end of the iteration,
\* that is after notify_order_finished when the order ended
update_and_notify_state(d) ==
    /\ pcD[d] = "relock"
    /\ smutex = 0
    /\ LET tipo == chosenD[d]
           order == get_updated_status(orders[orderD[d]])
       IN /\ states' = update_state(states, conteiners[tipo], tipo)
          /\ orders' = [orders EXCEPT ![orderD[d]] = order]
          /\ IF order.status = InProgress
             THEN /\ cmutex' = [cmutex EXCEPT ![tipo] = 0]
                  /\ chosenD' = [chosenD EXCEPT ![d] = "none"]
                  /\ pcD' = [NotifyStatesD(pcD) EXCEPT ![d] = "wait_states"]
             ELSE /\ pcD' = [NotifyStatesD(pcD) EXCEPT ![d] = "notify"]
                  /\ UNCHANGED <<cmutex, chosenD>>
    /\ UNCHANGED <<requested, pendingSome, pendingQ, finishedQ, ordersFinished, conteiners,
                   smutex, orderD, pcMain, nextIdx, pcAlert, heldAlert, pcPeriodic>>
    /\ UNCHANGED <<ledgerVars, extraVars>>

FinishedOverLimit(q) == Len(q) > N_DISPENSERS

notify_order_finished(d) ==
    /\ pcD[d] = "notify"
    /\ IF FinishedOverLimit(finishedQ)
       THEN /\ pcD' = [pcD EXCEPT ![d] = "notify_blocked"]
            /\ UNCHANGED <<finishedQ, cmutex, chosenD, orderD, pcAlert>>
       ELSE /\ finishedQ' = PushFront(finishedQ, orderD[d])
            /\ pcAlert' = NotifyFinishedAlert(pcAlert)
            /\ cmutex' = [t \in Ingredients |-> IF cmutex[t] = d THEN 0 ELSE cmutex[t]]
            /\ chosenD' = [chosenD EXCEPT ![d] = "none"]
            /\ orderD' = [orderD EXCEPT ![d] = 0]
            /\ pcD' = [NotifyFinishedD(pcD) EXCEPT ![d] = "wait_pedido"]
    /\ UNCHANGED <<orders, requested, pendingSome, pendingQ, ordersFinished, states,
                   conteiners, smutex, pcMain, nextIdx, heldAlert, pcPeriodic>>
    /\ UNCHANGED <<ledgerVars, extraVars>>

\* ------------------------------------------------------------------ SYSTEM-ALERT
wait_order ==
    /\ pcAlert = "wait_order"
    /\ IF finishedQ = <<>>
       THEN /\ pcAlert' = "wait_order_blocked"
            /\ UNCHANGED <<finishedQ, heldAlert, pcD>>
       ELSE /\ heldAlert' = Back(finishedQ)
            /\ finishedQ' = PopBack(finishedQ)
            /\ pcD' = NotifyFinishedD(pcD)
            /\ pcAlert' = "register"
    /\ UNCHANGED <<orders, requested, pendingSome, pendingQ, ordersFinished, states,
                   conteiners, cmutex, smutex, orderD, chosenD, pcMain, nextIdx, pcPeriodic>>
    /\ UNCHANGED <<ledgerVars, extraVars>>

\* process_finished_orders: the push into orders_finished and the exit test
process_finished_orders ==
    /\ pcAlert = "register"
    /\ ordersFinished' = PushFront(ordersFinished, heldAlert)
    /\ heldAlert' = 0
    /\ pcAlert' = IF Len(ordersFinished') = total_orders_to_process
                  THEN "join_periodic" ELSE "wait_order"
    /\ UNCHANGED <<orders, requested, pendingSome, pendingQ, finishedQ, states, conteiners,
                   cmutex, smutex, pcD, orderD, chosenD, pcMain, nextIdx, pcPeriodic>>
    /\ UNCHANGED <<ledgerVars, extraVars>>

join_periodic ==
    /\ pcAlert = "join_periodic"
    /\ pcPeriodic = "done"
    /\ pcAlert' = "done"
    /\ UNCHANGED <<orders, requested, pendingSome, pendingQ, finishedQ, ordersFinished,
                   states, conteiners, cmutex, smutex, pcD, orderD, chosenD, pcMain,
                   nextIdx, heldAlert, pcPeriodic>>
    /\ UNCHANGED <<ledgerVars, extraVars>>

\* run_periodic_alerts: after the sleep, lock ContainersStates
periodic_lock_states ==
    /\ pcPeriodic = "sleep"
    /\ smutex = 0
    /\ smutex' = PeriodicThread
    /\ pcPeriodic' = "report"
    /\ UNCHANGED <<orders, requested, pendingSome, pendingQ, finishedQ, ordersFinished,
                   states, conteiners, cmutex, pcD, orderD, chosenD, pcMain, nextIdx,
                   pcAlert, heldAlert>>
    /\ UNCHANGED <<ledgerVars, extraVars>>

\* run_periodic_alerts: print the levels, lock orders_finished, count, leave or loop
periodic_report ==
    /\ pcPeriodic = "report"
    /\ smutex' = 0
    /\ pcPeriodic' = IF Len(ordersFinished) = total_orders_to_process THEN "done" ELSE "sleep"
    /\ UNCHANGED <<orders, requested, pendingSome, pendingQ, finishedQ, ordersFinished,
                   states, conteiners, cmutex, pcD, orderD, chosenD, pcMain, nextIdx,
                   pcAlert, heldAlert>>
    /\ UNCHANGED <<ledgerVars, extraVars>>

\* ====================================================================== part B
\* Part B (assignment-2): the replicated points ledger.  Every server process
\* runs a Nodo actor; the process of the coordinator also serves one NodoHandler
\* actor per connected Nodo and the Coordinador actor.  A Nodo and its
\* NodoHandler talk over one TCP connection (two FIFO directions of lines); the
\* NodoHandlers and the Coordinador itself put messages in the Coordinador's
\* mailbox; coffee machines and the operator's "desconexion" tool talk to a Nodo
\* by UDP datagrams.  An actor handles one message at a time, to completion.
\*
\* Forwarding hops that keep the order and change no state are folded into the
\* sender: CafeteraListener (UDP <-> Nodo), the Nodo's SendHandlerToCoordinator
\* self-message and the NodoHandler's ReceiverFromCoordinador write.
\*
\* The election (BullyListener) and the reconnection it triggers are not part of
\* this section: after a Nodo leaves, it stays out.

CANT_MAX_NODOS == 3

ID_CORDINADOR_INICIAL == 1

SALDO_INICIAL == 10000

\* PROBABILIDAD_ERROR of the coffee machines, in hundredths
PROBABILIDAD_ERROR == 0

\* order lines over all the branches' files of one run
MaxPedidos == 2

\* DESCONECTAR datagrams the operator sends in one run
MaxDesconexiones == 1

\* server processes started in one run (ids 1..ServidoresEnMarcha, at most
\* CANT_MAX_NODOS); server ID_CORDINADOR_INICIAL is the coordinator they connect to
ServidoresEnMarcha == 2

Nodos == 1..(IF ServidoresEnMarcha < CANT_MAX_NODOS THEN ServidoresEnMarcha
                                                    ELSE CANT_MAX_NODOS)

\* the values rand::thread_rng().gen::<f64>() is drawn from, in hundredths
NumeroRandom == {0, 50, 99}

\* ------------------------------------------------------------------ helpers
EmptyMap == [x \in {} |-> 0]

\* HashMap::insert
Put(f, k, v) == [x \in (DOMAIN f) \cup {k} |-> IF x = k THEN v ELSE f[x]]

\* a number is kept as two digits of base 2^16, value = hi * 2^16 + lo.  A u32
\* (cantidad, saldo) has 0 <= hi < 2^16; the exact result of an addition or a
\* subtraction of two u32 may have hi = 2^16 (a carry) or hi < 0 (a borrow)
Base == 2^16

U32(x) == [hi |-> x \div Base, lo |-> x % Base]

Mas(a, b) ==
    [hi |-> a.hi + b.hi + ((a.lo + b.lo) \div Base), lo |-> (a.lo + b.lo) % Base]

\* mutant: the line cuenta.saldo -= cantidad is forgotten
Menos_saldo_intacto(a, b) == a

Menos(a, b) ==
    [hi |-> a.hi - b.hi - (IF a.lo < b.lo THEN 1 ELSE 0), lo |-> (a.lo + Base - b.lo) % Base]

\* a > b on u32
u32_gt(a, b) == a.hi > b.hi \/ (a.hi = b.hi /\ a.lo > b.lo)

\* the exact result does not fit a u32: `attempt to add/subtract with overflow`
Overflows(w) == w.hi < 0 \/ w.hi >= Base

\* what a build without overflow checks stores
Wrapping(w) == [hi |-> (w.hi + Base) % Base, lo |-> w.lo]

\* the orders a branch's machines send: RESTA = Restar (a Deduct), SUMA = Sumar (a
\* Credit).  The last one is a Credit of 2^32 - 10000 points on an account no
\* server has seen.
PedidoCatalogue ==
    { [id_cuenta |-> 1, tipo |-> "RESTA", cantidad |-> U32(500)],
      [id_cuenta |-> 1, tipo |-> "RESTA", cantidad |-> U32(8000)],
      [id_cuenta |-> 1, tipo |-> "SUMA",  cantidad |-> U32(300)],
      [id_cuenta |-> 7, tipo |-> "SUMA",  cantidad |-> [hi |-> Base - 1, lo |-> Base - 10000]] }

\* three Deducts that contend for account 1
TresRestas ==
    << [id_cuenta |-> 1, tipo |-> "RESTA", cantidad |-> U32(500)],
       [id_cuenta |-> 1, tipo |-> "RESTA", cantidad |-> U32(8000)],
       [id_cuenta |-> 1, tipo |-> "RESTA", cantidad |-> U32(8000)] >>

\* the order files of a run: the first line is the file of the branch of the last
\* server, the other lines are the file of the branch of the coordinator's server
NodoDePedido(i) == IF i = 1 THEN Cardinality(Nodos) ELSE ID_CORDINADOR_INICIAL

\* main splits a file of at most CANTIDAD_CAFETERAS lines one line per machine,
\* machine ids from 0
CafeteraDePedido(i) == IF i = 1 THEN 0 ELSE i - 2

\* id of a new transaction: the decimal digits of id_nodo, id_cafetera and
\* id_orden, concatenated and parsed as u32
Digits10(x) == IF x < 10 THEN 10 ELSE IF x < 100 THEN 100 ELSE 1000

new_id_transaccion(id_nodo, id_cafetera, orden) ==
    (id_nodo * Digits10(id_cafetera) + id_cafetera) * Digits10(orden) + orden

\* ------------------------------------------------------------------ messages
\* a line between Nodo and Coordinador; commit and cantidad are only written by
\* Finish and Commit
Mensaje(tipo, id_nodo, id_cuenta, id_transaccion, id_cafetera) ==
    [tipo |-> tipo, id_nodo |-> id_nodo, id_cuenta |-> id_cuenta,
     id_transaccion |-> id_transaccion, id_cafetera |-> id_cafetera,
     commit |-> "UNKNOWN", cantidad |-> U32(0)]

MensajeCantidad(tipo, id_nodo, id_cuenta, id_transaccion, commit, cantidad, id_cafetera) ==
    [tipo |-> tipo, id_nodo |-> id_nodo, id_cuenta |-> id_cuenta,
     id_transaccion |-> id_transaccion, id_cafetera |-> id_cafetera,
     commit |-> commit, cantidad |-> cantidad]

\* end of a TCP direction (the peer shut its write half down or dropped the socket)
FIN == Mensaje("FIN", 0, 0, 0, 0)

\* the kinds of line of the protocol between Nodo and Coordinador
TiposDeMensaje ==
    {"STARTER", "PREPARE", "YES", "EXECUTE", "FINISH", "COMMIT", "OKEY", "ABORT",
     "PING", "OKEYABORT", "DISCONNECT"}

\* Mensaje::to_bytes, the number a kind is written as (the enum's discriminant)
to_bytes(tipo) ==
    CASE tipo = "STARTER" -> 0
      [] tipo = "PREPARE" -> 1
      [] tipo = "YES" -> 2
      [] tipo = "EXECUTE" -> 3
      [] tipo = "FINISH" -> 4
      [] tipo = "COMMIT" -> 5
      [] tipo = "OKEY" -> 6
      [] tipo = "ABORT" -> 7
      [] tipo = "PING" -> 8
      [] tipo = "OKEYABORT" -> 9
      [] tipo = "DISCONNECT" -> 10
      [] OTHER -> 11

\* get_tipo_mensaje().to_string() of MensajeBytes::to_string: the bytes of the
\* decimal text of the kind's number ('0' is 48)
RECURSIVE tipo_to_string(_)
tipo_to_string(v) ==
    IF v < 10 THEN <<48 + v>> ELSE tipo_to_string(v \div 10) \o <<48 + (v % 10)>>

\* Mensaje::from_bytes, the kind of a byte
from_bytes(byte) ==
    CASE byte = 48 -> "STARTER"
      [] byte = 49 -> "PREPARE"
      [] byte = 50 -> "YES"
      [] byte = 51 -> "EXECUTE"
      [] byte = 52 -> "FINISH"
      [] byte = 53 -> "COMMIT"
      [] byte = 54 -> "OKEY"
      [] byte = 55 -> "ABORT"
      [] byte = 56 -> "PING"
      [] byte = 57 -> "OKEYABORT"
      [] byte = 58 -> "DISCONNECT"
      [] OTHER -> "UNKNOWN"

\* Mensaje::from_bytes on the first byte of a line (aux[0]) written with kind
\* tipo.  The kind is written as the decimal text of its number, so DISCONNECT
\* ("10") starts with '1', the byte of PREPARE.  The end of a stream is no line.
Mensaje_from_bytes(tipo) ==
    IF tipo \in TiposDeMensaje THEN from_bytes(Head(tipo_to_string(to_bytes(tipo)))) ELSE tipo

CuentaNueva(blocked) ==
    [blocked |-> blocked, saldo |-> U32(SALDO_INICIAL), transacciones |-> EmptyMap]

Transaction(socket, cantidad, id_cafetera, id_cuenta) ==
    [socket |-> socket, cantidad |-> cantidad, state |-> "Wait",
     id_cafetera |-> id_cafetera, id_cuenta |-> id_cuenta]

TransactionCoordinator(status, from_id_nodo, id_cuenta, tipo, id_cafetera) ==
    [status |-> status, yes_nodos |-> <<>>, ok_nodos |-> <<>>,
     from_id_nodo |-> from_id_nodo, id_cuenta |-> id_cuenta, tipo |-> tipo,
     id_cafetera |-> id_cafetera]

\* ------------------------------------------------------------------ initial state
\* every server is up and connected to the initial coordinator, no order sent yet
PedidosFiles ==
    UNION { [1..m -> PedidoCatalogue] : m \in 0..MaxPedidos } \cup {TresRestas}

\* the servers of S are up, each Nodo connected to the initial coordinator and
\* registered by it, each BullyListener at rest
InitProcesos(S) ==
    /\ pc_cafetera = [p \in DOMAIN pedidos |-> "enviar"]
    /\ udp_al_nodo = [p \in DOMAIN pedidos |-> "NINGUNO"]
    /\ cuentas = [n \in S |-> Put(EmptyMap, 1, CuentaNueva(FALSE))]
    /\ transacciones_resta = [n \in S |-> EmptyMap]
    /\ transacciones_suma = [n \in S |-> EmptyMap]
    /\ id_orden = [n \in S |-> 0]
    /\ nodo_conectado = [n \in S |-> TRUE]
    /\ nodo_vivo = [n \in S |-> TRUE]
    /\ stream_cordinador = [n \in S |-> "abierto"]
    /\ tcp_nodo_handler = [n \in S |-> <<>>]
    /\ tcp_handler_nodo = [n \in S |-> <<>>]
    /\ handler_vivo = [n \in S |-> TRUE]
    /\ handler_conectado = [n \in S |-> TRUE]
    /\ handler_escritura = [n \in S |-> "abierto"]
    /\ mailbox = <<>>
    /\ addr_nodos = S
    /\ transacciones = EmptyMap
    /\ cola = EmptyMap
    /\ coordinador_conectado = TRUE
    /\ coordinador_vivo = TRUE
    /\ desconexiones = 0
    /\ proceso_vivo = [n \in S |-> TRUE]
    /\ estado = [n \in S |-> "NotExecuting"]
    /\ bully_conectado = [n \in S |-> TRUE]
    /\ soy_coordinador = [n \in S |-> n = ID_CORDINADOR_INICIAL]
    /\ timeouts = [n \in S |-> 0]
    /\ start_election = [n \in S |-> 0]
    /\ set_state_bully = [n \in S |-> <<>>]
    /\ udp_bully = EmptyBag
    /\ id_coordinador = [n \in S |-> ID_CORDINADOR_INICIAL]
    /\ new_coordinator = [n \in S |-> <<>>]
    /\ sede = ID_CORDINADOR_INICIAL
    /\ conexion = [n \in S |-> ID_CORDINADOR_INICIAL]
    /\ por_aceptar = <<>>
    /\ caidas = 0
    /\ conexiones = 0

InitServers == InitProcesos(Nodos)

\* no transaction id is being allocated
NingunPedido == [id_nodo |-> 0, id_cafetera |-> 0, id_orden |-> 0]

\* the id allocation while the cafeteria or the ledger runs
IdsIdle ==
    /\ pedido_a = NingunPedido
    /\ pedido_b = NingunPedido
    /\ id_transaccion_a = 0
    /\ id_transaccion_b = 0

ExtraIdle == IdsIdle

\* the cafeteria of part A while the ledger runs: no order file
CafeIdle == orders = <<>> /\ requested = <<>> /\ InitThreads

InitLedger == pedidos \in PedidosFiles /\ InitServers /\ CafeIdle /\ ExtraIdle

\* the ledger while the cafeteria of part A runs: no branch sends an order
LedgerIdle == pedidos = <<>> /\ InitServers

cafeteraVars == <<pc_cafetera, udp_al_nodo>>

nodoVars == <<cuentas, transacciones_resta, transacciones_suma, id_orden, nodo_conectado>>

handlerVars == <<handler_vivo, handler_conectado, handler_escritura>>

coordinadorVars == <<addr_nodos, transacciones, cola, coordinador_conectado,
                     coordinador_vivo>>

\* ------------------------------------------------------------------ Coordinador
\* Addr<NodoHandler>::try_send(ReceiverFromCoordinador) to the handlers of dests,
\* and each handler's write of the line on its socket.  A handler that stopped, or
\* whose write half is shut down, writes nothing.
Enviar(dests, linea) ==
    tcp_handler_nodo' =
        [n \in DOMAIN tcp_handler_nodo |->
            IF n \in dests /\ handler_vivo[n] /\ handler_escritura[n] = "abierto"
            THEN Append(tcp_handler_nodo[n], linea)
            ELSE tcp_handler_nodo[n]]

\* the orders in which a HashMap iteration can visit the keys S
Perms(S) ==
    { f \in [1..Cardinality(S) -> S] : \A x \in S : \E i \in DOMAIN f : f[i] = x }

\* the Coordinador takes the next message of its mailbox
Recibe(tipo) ==
    /\ coordinador_vivo
    /\ mailbox # <<>>
    /\ Head(mailbox).tipo = tipo

\* what the Coordinador's handlers leave alone outside the actor and its sockets
coordinadorFrame ==
    <<pedidos, cafeteraVars, nodoVars, nodo_vivo, stream_cordinador,
      tcp_nodo_handler, handlerVars, desconexiones, cafeVars, extraVars>>

\* the head of an account's queue starts its first phase: status Wait, Prepare to
\* every connected handler
Coordinador_Starter ==
    /\ Recibe("STARTER")
    /\ LET msg == Head(mailbox)
           pendientes == IF msg.id_cuenta \in DOMAIN cola
                         THEN Append(cola[msg.id_cuenta], msg.id_transaccion)
                         ELSE <<msg.id_transaccion>>
           t == TransactionCoordinator("Uninitialized", msg.id_nodo, msg.id_cuenta,
                                       "RESTA", msg.id_cafetera)
       IN  IF ~coordinador_conectado
           THEN UNCHANGED <<transacciones, cola, tcp_handler_nodo>>
           ELSE /\ cola' = Put(cola, msg.id_cuenta, pendientes)
                /\ IF Len(pendientes) > 1
                   THEN /\ transacciones' = Put(transacciones, msg.id_transaccion, t)
                        /\ UNCHANGED tcp_handler_nodo
                   ELSE /\ transacciones' = Put(transacciones, msg.id_transaccion,
                                                [t EXCEPT !.status = "Wait"])
                        /\ Enviar(addr_nodos,
                                  Mensaje("PREPARE", msg.id_nodo, msg.id_cuenta,
                                          msg.id_transaccion, msg.id_cafetera))
    /\ mailbox' = Tail(mailbox)
    /\ UNCHANGED <<addr_nodos, coordinador_conectado, coordinador_vivo>>
    /\ UNCHANGED coordinadorFrame

Coordinador_Yes ==
    /\ Recibe("YES")
    /\ LET msg == Head(mailbox)
       IN  IF ~coordinador_conectado \/ msg.id_transaccion \notin DOMAIN transacciones
           THEN UNCHANGED <<transacciones, tcp_handler_nodo, coordinador_vivo>>
           ELSE LET t == transacciones[msg.id_transaccion]
                    yes == Append(t.yes_nodos, msg.id_nodo)
                IN  IF Len(yes) # Cardinality(addr_nodos)
                    THEN /\ transacciones' =
                                [transacciones EXCEPT ![msg.id_transaccion].yes_nodos = yes]
                         /\ UNCHANGED <<tcp_handler_nodo, coordinador_vivo>>
                    ELSE /\ transacciones' =
                                [transacciones EXCEPT ![msg.id_transaccion] =
                                    [t EXCEPT !.yes_nodos = yes, !.status = "Execute"]]
                         /\ IF t.from_id_nodo \in addr_nodos
                            THEN /\ Enviar({t.from_id_nodo},
                                           Mensaje("EXECUTE", t.from_id_nodo, msg.id_cuenta,
                                                   msg.id_transaccion, msg.id_cafetera))
                                 /\ UNCHANGED coordinador_vivo
                            ELSE \* expect("Siempre se obtendra la address") panics
                                 /\ coordinador_vivo' = FALSE
                                 /\ UNCHANGED tcp_handler_nodo
    /\ mailbox' = Tail(mailbox)
    /\ UNCHANGED <<addr_nodos, cola, coordinador_conectado>>
    /\ UNCHANGED coordinadorFrame

Coordinador_Finish ==
    /\ Recibe("FINISH")
    /\ LET msg == Head(mailbox)
           con_suma == IF msg.commit = "SUMA"
                       THEN Put(transacciones, msg.id_transaccion,
                                TransactionCoordinator("Wait", msg.id_nodo, msg.id_cuenta,
                                                       "SUMA", msg.id_cafetera))
                       ELSE transacciones
       IN  IF ~coordinador_conectado
           THEN UNCHANGED <<transacciones, tcp_handler_nodo>>
           ELSE /\ transacciones' =
                       IF msg.id_transaccion \in DOMAIN con_suma
                       THEN [con_suma EXCEPT ![msg.id_transaccion].status = "Commit"]
                       ELSE con_suma
                /\ Enviar(addr_nodos,
                          MensajeCantidad("COMMIT", msg.id_nodo, msg.id_cuenta,
                                          msg.id_transaccion, msg.commit, msg.cantidad,
                                          msg.id_cafetera))
    /\ mailbox' = Tail(mailbox)
    /\ UNCHANGED <<addr_nodos, cola, coordinador_conectado, coordinador_vivo>>
    /\ UNCHANGED coordinadorFrame

\* the tail both acknowledgement handlers share once ok_nodos is complete: the
\* transaction msg.id_transaccion already has status estado in tr; pop the head of
\* its account's queue, whichever transaction that is, and start the next one
SiguienteDeLaCola(msg, tr) ==
    LET id_cuenta == tr[msg.id_transaccion].id_cuenta
    IN  IF id_cuenta \notin DOMAIN cola
        THEN /\ transacciones' = tr
             /\ UNCHANGED <<cola, tcp_handler_nodo, coordinador_vivo>>
        ELSE IF cola[id_cuenta] = <<>>
        THEN \* Vec::remove(0) on an empty queue panics
             /\ transacciones' = tr
             /\ coordinador_vivo' = FALSE
             /\ UNCHANGED <<cola, tcp_handler_nodo>>
        ELSE LET pendientes == Tail(cola[id_cuenta])
             IN  /\ cola' = [cola EXCEPT ![id_cuenta] = pendientes]
                 /\ UNCHANGED coordinador_vivo
                 /\ IF pendientes # <<>> /\ Head(pendientes) \in DOMAIN tr
                    THEN /\ transacciones' = [tr EXCEPT ![Head(pendientes)].status = "Wait"]
                         /\ Enviar(addr_nodos,
                                   Mensaje("PREPARE", tr[Head(pendientes)].from_id_nodo,
                                           tr[Head(pendientes)].id_cuenta, Head(pendientes),
                                           msg.id_cafetera))
                    ELSE /\ transacciones' = tr
                         /\ UNCHANGED tcp_handler_nodo

Coordinador_OkeyToCoordinator ==
    /\ Recibe("OKEY")
    /\ LET msg == Head(mailbox)
       IN  IF ~coordinador_conectado \/ msg.id_transaccion \notin DOMAIN transacciones
           THEN UNCHANGED <<transacciones, cola, tcp_handler_nodo, coordinador_vivo>>
           ELSE LET x == transacciones[msg.id_transaccion]
                    ok == Append(x.ok_nodos, msg.id_nodo)
                    hecho == [transacciones EXCEPT ![msg.id_transaccion] =
                                 [x EXCEPT !.status = "Done", !.ok_nodos = <<>>]]
                IN  IF Len(ok) # Cardinality(addr_nodos)
                    THEN /\ transacciones' =
                                [transacciones EXCEPT ![msg.id_transaccion].ok_nodos = ok]
                         /\ UNCHANGED <<cola, tcp_handler_nodo, coordinador_vivo>>
                    ELSE IF x.tipo = "SUMA"
                    THEN /\ transacciones' = hecho
                         /\ UNCHANGED <<cola, tcp_handler_nodo, coordinador_vivo>>
                    ELSE SiguienteDeLaCola(msg, hecho)
    /\ mailbox' = Tail(mailbox)
    /\ UNCHANGED <<addr_nodos, coordinador_conectado>>
    /\ UNCHANGED coordinadorFrame

Coordinador_OkeyAbortToCoordinator ==
    /\ Recibe("OKEYABORT")
    /\ LET msg == Head(mailbox)
       IN  IF ~coordinador_conectado \/ msg.id_transaccion \notin DOMAIN transacciones
           THEN UNCHANGED <<transacciones, cola, tcp_handler_nodo, coordinador_vivo>>
           ELSE LET x == transacciones[msg.id_transaccion]
                    ok == Append(x.ok_nodos, msg.id_nodo)
                IN  IF Len(ok) # Cardinality(addr_nodos)
                    THEN /\ transacciones' =
                                [transacciones EXCEPT ![msg.id_transaccion].ok_nodos = ok]
                         /\ UNCHANGED <<cola, tcp_handler_nodo, coordinador_vivo>>
                    ELSE SiguienteDeLaCola(msg,
                            [transacciones EXCEPT ![msg.id_transaccion] =
                                [x EXCEPT !.status = "Abort", !.ok_nodos = <<>>]])
    /\ mailbox' = Tail(mailbox)
    /\ UNCHANGED <<addr_nodos, coordinador_conectado>>
    /\ UNCHANGED coordinadorFrame

Coordinador_Abort ==
    /\ Recibe("ABORT")
    /\ LET msg == Head(mailbox)
       IN  IF ~coordinador_conectado
           THEN UNCHANGED <<transacciones, tcp_handler_nodo>>
           ELSE /\ transacciones' =
                       IF msg.id_transaccion \in DOMAIN transacciones
                       THEN [transacciones EXCEPT ![msg.id_transaccion].status = "Abort"]
                       ELSE transacciones
                /\ Enviar(addr_nodos, msg)
    /\ mailbox' = Tail(mailbox)
    /\ UNCHANGED <<addr_nodos, cola, coordinador_conectado, coordinador_vivo>>
    /\ UNCHANGED coordinadorFrame

\* a handler saw its Nodo's connection end: forget the Nodo, abort its
\* transactions that are not finished (an Abort to itself for each)
Coordinador_DisconnectNodo ==
    /\ Recibe("DisconnectNodo")
    /\ LET msg == Head(mailbox)
           suyas == { id \in DOMAIN transacciones :
                        /\ transacciones[id].from_id_nodo = msg.id_nodo
                        /\ transacciones[id].status \notin {"Abort", "Done"} }
       IN  IF ~coordinador_conectado
           THEN /\ mailbox' = Tail(mailbox)
                /\ UNCHANGED <<addr_nodos, transacciones>>
           ELSE /\ addr_nodos' = addr_nodos \ {msg.id_nodo}
                /\ transacciones' =
                       [id \in DOMAIN transacciones |->
                           IF id \in suyas
                           THEN [transacciones[id] EXCEPT !.status = "Abort"]
                           ELSE transacciones[id]]
                /\ \E orden \in Perms(suyas) :
                       mailbox' = Tail(mailbox) \o
                           [i \in DOMAIN orden |->
                               Mensaje("ABORT", transacciones[orden[i]].from_id_nodo,
                                       transacciones[orden[i]].id_cuenta, orden[i],
                                       transacciones[orden[i]].id_cafetera)]
    /\ UNCHANGED <<cola, coordinador_conectado, coordinador_vivo, tcp_handler_nodo>>
    /\ UNCHANGED coordinadorFrame

\* the operator disconnected the coordinator's own Nodo: Shutdown to every
\* handler (each shuts the write half of its socket down), forget everything
Coordinador_Disconnect ==
    /\ Recibe("Disconnect")
    /\ tcp_handler_nodo' =
           [n \in DOMAIN tcp_handler_nodo |->
               IF n \in addr_nodos /\ handler_vivo[n] /\ handler_escritura[n] = "abierto"
               THEN Append(tcp_handler_nodo[n], FIN)
               ELSE tcp_handler_nodo[n]]
    /\ handler_escritura' =
           [n \in DOMAIN handler_escritura |->
               IF n \in addr_nodos /\ handler_vivo[n] THEN "cerrado"
               ELSE handler_escritura[n]]
    /\ coordinador_conectado' = FALSE
    /\ addr_nodos' = {}
    /\ transacciones' = EmptyMap
    /\ cola' = EmptyMap
    /\ mailbox' = Tail(mailbox)
    /\ UNCHANGED <<coordinador_vivo, handler_vivo, handler_conectado>>
    /\ UNCHANGED <<pedidos, cafeteraVars, nodoVars, nodo_vivo,
                   stream_cordinador, tcp_nodo_handler, desconexiones, cafeVars, extraVars>>

\* ------------------------------------------------------------------ NodoHandler
\* what the handler's StreamHandler makes of a line: the message it gives the
\* Coordinador
MensajeAlCoordinador(linea) ==
    IF Mensaje_from_bytes(linea.tipo) = "PREPARE"
    THEN Mensaje("Disconnect", 0, 0, 0, 0)
    ELSE linea

NodoHandler_handle(n) ==
    /\ handler_vivo[n]
    /\ tcp_nodo_handler[n] # <<>>
    /\ Head(tcp_nodo_handler[n]) # FIN
    /\ LET linea == Head(tcp_nodo_handler[n])
       IN  /\ mailbox' = Append(mailbox, MensajeAlCoordinador(linea))
           /\ handler_conectado' =
                  [handler_conectado EXCEPT
                      ![n] = IF Mensaje_from_bytes(linea.tipo) = "PREPARE" THEN FALSE ELSE @]
    /\ tcp_nodo_handler' = [tcp_nodo_handler EXCEPT ![n] = Tail(@)]
    /\ UNCHANGED <<pedidos, cafeteraVars, nodoVars, nodo_vivo,
                   stream_cordinador, tcp_handler_nodo, handler_vivo, handler_escritura,
                   coordinadorVars, desconexiones, cafeVars, extraVars>>

\* the Nodo's side of the connection ended: tell the Coordinador and stop; the
\* socket is dropped with the actor
NodoHandler_finished(n) ==
    /\ handler_vivo[n]
    /\ tcp_nodo_handler[n] # <<>>
    /\ Head(tcp_nodo_handler[n]) = FIN
    /\ mailbox' = IF handler_conectado[n]
                  THEN Append(mailbox, Mensaje("DisconnectNodo", n, 0, 0, 0))
                  ELSE mailbox
    /\ handler_vivo' = [handler_vivo EXCEPT ![n] = FALSE]
    /\ handler_escritura' = [handler_escritura EXCEPT ![n] = "cerrado"]
    /\ tcp_handler_nodo' =
           [tcp_handler_nodo EXCEPT
               ![n] = IF handler_escritura[n] = "abierto" THEN Append(@, FIN) ELSE @]
    /\ tcp_nodo_handler' = [tcp_nodo_handler EXCEPT ![n] = Tail(@)]
    /\ UNCHANGED <<pedidos, cafeteraVars, nodoVars, nodo_vivo,
                   stream_cordinador, handler_conectado, coordinadorVars, desconexiones,
                   cafeVars, extraVars>>

\* ------------------------------------------------------------------ coffee machines
\* process_sublist sends the order of the line
Cafetera_enviar(p) ==
    /\ pc_cafetera[p] = "enviar"
    /\ udp_al_nodo' = [udp_al_nodo EXCEPT
                          ![p] = IF pedidos[p].tipo = "SUMA" THEN "SUMAR" ELSE "RESTAR"]
    /\ pc_cafetera' = [pc_cafetera EXCEPT ![p] = "escuchar_respuesta"]
    /\ UNCHANGED <<pedidos, nodoVars, nodo_vivo, stream_cordinador, tcp_nodo_handler,
                   tcp_handler_nodo, handlerVars, mailbox, coordinadorVars, desconexiones,
                   cafeVars, extraVars>>

\* where the machine of order p goes when it reads the datagram tipo.
\* escuchar_respuesta: on Okey the coffee is prepared, which fails when the number
\* drawn is below PROBABILIDAD_ERROR; a Deduct then waits for its confirmation.
\* esperar_confirmacion: Okey delivers the coffee, anything else discards it.
\* A machine that is done reads nothing more.
Cafetera_pc(p, tipo, numero_random) ==
    IF pc_cafetera[p] = "escuchar_respuesta"
    THEN IF tipo # "OKEY" THEN "no_ejecutado"
         ELSE IF numero_random < PROBABILIDAD_ERROR THEN "error"
         ELSE IF pedidos[p].tipo = "RESTA" THEN "esperar_confirmacion"
         ELSE "terminado"
    ELSE IF pc_cafetera[p] = "esperar_confirmacion"
    THEN IF tipo = "OKEY" THEN "entregado" ELSE "desechado"
    ELSE pc_cafetera[p]

\* the datagram the machine of order p sends when it reads the datagram tipo
Cafetera_envia(p, tipo, numero_random, en_vuelo) ==
    IF pc_cafetera[p] = "escuchar_respuesta" /\ tipo = "OKEY"
    THEN IF numero_random < PROBABILIDAD_ERROR THEN "ERROR" ELSE "OKEY"
    ELSE en_vuelo

\* Addr<CafeteraListener>::do_send(ReceiverActorNodo), the listener's send_to and
\* the step of the machine that reads the datagram; en_vuelo are the datagrams on
\* their way to the Nodos, sockets the machines written to
ReceiverActorNodo(en_vuelo, sockets, tipo) ==
    \E numero_random \in NumeroRandom :
        /\ pc_cafetera' =
               [p \in DOMAIN pc_cafetera |->
                   IF p \in sockets THEN Cafetera_pc(p, tipo, numero_random)
                   ELSE pc_cafetera[p]]
        /\ udp_al_nodo' =
               [p \in DOMAIN udp_al_nodo |->
                   IF p \in sockets THEN Cafetera_envia(p, tipo, numero_random, en_vuelo[p])
                   ELSE en_vuelo[p]]

\* ------------------------------------------------------------------ Nodo
\* the Nodo writes lines to its coordinator.  A write on a stream whose write
\* half is shut down fails, and the expect on the result ends the actor.
SendHandlerToCoordinator(n, lineas) ==
    IF lineas = <<>>
    THEN UNCHANGED <<tcp_nodo_handler, nodo_vivo>>
    ELSE IF stream_cordinador[n] = "abierto"
    THEN /\ tcp_nodo_handler' = [tcp_nodo_handler EXCEPT ![n] = @ \o lineas]
         /\ UNCHANGED nodo_vivo
    ELSE /\ nodo_vivo' = [nodo_vivo EXCEPT ![n] = FALSE]
         /\ UNCHANGED tcp_nodo_handler

\* the Nodo takes the next line of its coordinator
Lee(n, tipo) ==
    /\ nodo_vivo[n]
    /\ tcp_handler_nodo[n] # <<>>
    /\ Mensaje_from_bytes(Head(tcp_handler_nodo[n]).tipo) = tipo

nodoFrame ==
    <<pedidos, handlerVars, mailbox, coordinadorVars, desconexiones, cafeVars, extraVars>>

Nodo_PREPARE(n) ==
    /\ Lee(n, "PREPARE")
    /\ LET yes == Head(tcp_handler_nodo[n])
           id == yes.id_cuenta
       IN  /\ cuentas' =
                  [cuentas EXCEPT
                      ![n] = IF id \in DOMAIN @
                             THEN [@ EXCEPT ![id].blocked = TRUE]
                             ELSE Put(@, id, CuentaNueva(TRUE))]
           /\ SendHandlerToCoordinator(n,
                  <<Mensaje("YES", n, id, yes.id_transaccion, yes.id_cafetera)>>)
    /\ tcp_handler_nodo' = [tcp_handler_nodo EXCEPT ![n] = Tail(@)]
    /\ UNCHANGED <<transacciones_resta, transacciones_suma, id_orden, nodo_conectado,
                   stream_cordinador, cafeteraVars>>
    /\ UNCHANGED nodoFrame

\* second phase at the originator: the balance check of a Deduct
Nodo_EXECUTE(n) ==
    /\ Lee(n, "EXECUTE")
    /\ LET execute == Head(tcp_handler_nodo[n])
           id == execute.id_transaccion
       IN  IF id \notin DOMAIN transacciones_resta[n]
              \/ execute.id_cuenta \notin DOMAIN cuentas[n]
           THEN \* expect("Ya se habia insertado la transacción") panics
                /\ nodo_vivo' = [nodo_vivo EXCEPT ![n] = FALSE]
                /\ UNCHANGED <<transacciones_resta, cafeteraVars, tcp_nodo_handler>>
           ELSE IF u32_gt(transacciones_resta[n][id].cantidad,
                          cuentas[n][execute.id_cuenta].saldo)
           THEN /\ ReceiverActorNodo(udp_al_nodo, {transacciones_resta[n][id].socket},
                                     "ERROR")
                /\ SendHandlerToCoordinator(n,
                       <<Mensaje("ABORT", n, execute.id_cuenta, id, execute.id_cafetera)>>)
                /\ transacciones_resta' =
                       [transacciones_resta EXCEPT ![n][id].state = "Abort"]
           ELSE /\ transacciones_resta' =
                       [transacciones_resta EXCEPT ![n][id].state = "Locked"]
                /\ ReceiverActorNodo(udp_al_nodo, {transacciones_resta[n][id].socket},
                                     "OKEY")
                /\ UNCHANGED <<tcp_nodo_handler, nodo_vivo>>
    /\ tcp_handler_nodo' = [tcp_handler_nodo EXCEPT ![n] = Tail(@)]
    /\ UNCHANGED <<cuentas, transacciones_suma, id_orden, nodo_conectado,
                   stream_cordinador>>
    /\ UNCHANGED nodoFrame

\* the commit of a transaction at one replica.  `saldo += cantidad` and
\* `saldo -= cantidad` are u32 operations: when the result does not fit, a build
\* with overflow checks panics there (what was assigned before stays, nothing
\* after happens, the actor's socket is dropped), a build without them wraps and
\* goes on.
Nodo_COMMIT(n) ==
    /\ Lee(n, "COMMIT")
    /\ LET commit == Head(tcp_handler_nodo[n])
           id == commit.id_cuenta
           con_cuenta == IF id \in DOMAIN cuentas[n] THEN cuentas[n]
                         ELSE Put(cuentas[n], id, CuentaNueva(FALSE))
           libre == [con_cuenta EXCEPT ![id].blocked = FALSE]
           saldo == IF commit.commit = "SUMA" THEN Mas(libre[id].saldo, commit.cantidad)
                    ELSE Menos(libre[id].saldo, commit.cantidad)
           ok == Mensaje("OKEY", n, id, commit.id_transaccion, commit.id_cafetera)
           \* a Deduct of this Nodo is accepted before the subtraction
           resta_propia == /\ commit.commit # "SUMA"
                           /\ commit.id_transaccion \in DOMAIN transacciones_resta[n]
           \* a Credit of this Nodo is accepted after the addition
           suma_propia == /\ commit.commit = "SUMA"
                          /\ commit.id_transaccion \in DOMAIN transacciones_suma[n]
       IN  /\ IF resta_propia
              THEN /\ transacciones_resta' =
                          [transacciones_resta EXCEPT
                              ![n][commit.id_transaccion].state = "Accepted"]
                   /\ ReceiverActorNodo(udp_al_nodo,
                          {transacciones_resta[n][commit.id_transaccion].socket}, "OKEY")
              ELSE UNCHANGED <<transacciones_resta, cafeteraVars>>
           /\ \/ /\ cuentas' = [cuentas EXCEPT
                                    ![n] = [libre EXCEPT ![id].saldo = Wrapping(saldo)]]
                 /\ transacciones_suma' =
                        IF suma_propia
                        THEN [transacciones_suma EXCEPT
                                 ![n][commit.id_transaccion].state = "Accepted"]
                        ELSE transacciones_suma
                 /\ SendHandlerToCoordinator(n, <<ok>>)
                 /\ UNCHANGED stream_cordinador
              \/ /\ Overflows(saldo)
                 /\ cuentas' = [cuentas EXCEPT ![n] = libre]
                 /\ UNCHANGED transacciones_suma
                 /\ nodo_vivo' = [nodo_vivo EXCEPT ![n] = FALSE]
                 /\ stream_cordinador' = [stream_cordinador EXCEPT ![n] = "cerrado"]
                 /\ tcp_nodo_handler' =
                        [tcp_nodo_handler EXCEPT
                            ![n] = IF stream_cordinador[n] = "abierto"
                                   THEN Append(@, FIN) ELSE @]
    /\ tcp_handler_nodo' = [tcp_handler_nodo EXCEPT ![n] = Tail(@)]
    /\ UNCHANGED <<id_orden, nodo_conectado>>
    /\ UNCHANGED nodoFrame

\* mutant: the Abort puts the account back to the initial balance
Nodo_ABORT_restituye(n) ==
    /\ Lee(n, "ABORT")
    /\ LET abort == Head(tcp_handler_nodo[n])
           id == abort.id_cuenta
       IN  IF id \notin DOMAIN cuentas[n]
           THEN /\ nodo_vivo' = [nodo_vivo EXCEPT ![n] = FALSE]
                /\ UNCHANGED <<cuentas, tcp_nodo_handler>>
           ELSE /\ cuentas' = [cuentas EXCEPT ![n][id].blocked = FALSE,
                                              ![n][id].saldo = U32(SALDO_INICIAL)]
                /\ SendHandlerToCoordinator(n,
                       <<Mensaje("OKEYABORT", n, id, abort.id_transaccion,
                                 abort.id_cafetera)>>)
    /\ tcp_handler_nodo' = [tcp_handler_nodo EXCEPT ![n] = Tail(@)]
    /\ UNCHANGED <<transacciones_resta, transacciones_suma, id_orden, nodo_conectado,
                   stream_cordinador, cafeteraVars>>
    /\ UNCHANGED nodoFrame

Nodo_ABORT(n) ==
    /\ Lee(n, "ABORT")
    /\ LET abort == Head(tcp_handler_nodo[n])
           id == abort.id_cuenta
       IN  IF id \notin DOMAIN cuentas[n]
           THEN \* expect("La cuenta ya fue insertada") panics
                /\ nodo_vivo' = [nodo_vivo EXCEPT ![n] = FALSE]
                /\ UNCHANGED <<cuentas, tcp_nodo_handler>>
           ELSE /\ cuentas' = [cuentas EXCEPT ![n][id].blocked = FALSE]
                /\ SendHandlerToCoordinator(n,
                       <<Mensaje("OKEYABORT", n, id, abort.id_transaccion,
                                 abort.id_cafetera)>>)
    /\ tcp_handler_nodo' = [tcp_handler_nodo EXCEPT ![n] = Tail(@)]
    /\ UNCHANGED <<transacciones_resta, transacciones_suma, id_orden, nodo_conectado,
                   stream_cordinador, cafeteraVars>>
    /\ UNCHANGED nodoFrame

\* the coordinator's side of the connection ended: the Deducts of this Nodo that
\* are still open are aborted and their machines get Error
\* mutant: the end of the stream leaves the Deducts the machine is already
\* preparing (Locked) alone
Nodo_finished_sin_locked(n) ==
    /\ Lee(n, "FIN")
    /\ LET abiertas == { id \in DOMAIN transacciones_resta[n] :
                           transacciones_resta[n][id].state \in {"WaitCommit", "Wait"} }
       IN  /\ transacciones_resta' =
                  [transacciones_resta EXCEPT
                      ![n] = [id \in DOMAIN @ |->
                                 IF id \in abiertas THEN [@[id] EXCEPT !.state = "Abort"]
                                 ELSE @[id]]]
           /\ ReceiverActorNodo(udp_al_nodo,
                  { transacciones_resta[n][id].socket : id \in abiertas }, "ERROR")
    /\ start_election' =
           IF nodo_conectado[n] /\ n # id_coordinador[n]
           THEN [start_election EXCEPT ![n] = @ + 1]
           ELSE start_election
    /\ nodo_conectado' = [nodo_conectado EXCEPT ![n] = FALSE]
    /\ tcp_handler_nodo' = [tcp_handler_nodo EXCEPT ![n] = Tail(@)]
    /\ UNCHANGED <<cuentas, transacciones_suma, id_orden, nodo_vivo, stream_cordinador,
                   tcp_nodo_handler>>
    /\ UNCHANGED <<pedidos, handlerVars, mailbox, coordinadorVars, desconexiones,
                   cafeVars, idVars>>
    /\ UNCHANGED <<proceso_vivo, estado, bully_conectado, soy_coordinador, timeouts,
                   set_state_bully, udp_bully, id_coordinador, new_coordinator, sede,
                   conexion, por_aceptar, caidas, conexiones>>

Nodo_finished(n) ==
    /\ Lee(n, "FIN")
    /\ LET abiertas == { id \in DOMAIN transacciones_resta[n] :
                           transacciones_resta[n][id].state \in
                               {"WaitCommit", "Wait", "Locked"} }
       IN  /\ transacciones_resta' =
                  [transacciones_resta EXCEPT
                      ![n] = [id \in DOMAIN @ |->
                                 IF id \in abiertas THEN [@[id] EXCEPT !.state = "Abort"]
                                 ELSE @[id]]]
           /\ ReceiverActorNodo(udp_al_nodo,
                  { transacciones_resta[n][id].socket : id \in abiertas }, "ERROR")
    /\ start_election' =
           IF nodo_conectado[n] /\ n # id_coordinador[n]
           THEN [start_election EXCEPT ![n] = @ + 1]
           ELSE start_election
    /\ nodo_conectado' = [nodo_conectado EXCEPT ![n] = FALSE]
    /\ tcp_handler_nodo' = [tcp_handler_nodo EXCEPT ![n] = Tail(@)]
    /\ UNCHANGED <<cuentas, transacciones_suma, id_orden, nodo_vivo, stream_cordinador,
                   tcp_nodo_handler>>
    /\ UNCHANGED <<pedidos, handlerVars, mailbox, coordinadorVars, desconexiones,
                   cafeVars, idVars>>
    /\ UNCHANGED <<proceso_vivo, estado, bully_conectado, soy_coordinador, timeouts,
                   set_state_bully, udp_bully, id_coordinador, new_coordinator, sede,
                   conexion, por_aceptar, caidas, conexiones>>

\* HashMap::insert of the machine's transaction in the account, creating the
\* account with the initial balance if the Nodo has not seen it
RegistraEnCuenta(cs, id_cuenta, id_cafetera, id_transaccion) ==
    IF id_cuenta \in DOMAIN cs
    THEN [cs EXCEPT ![id_cuenta].transacciones = Put(@, id_cafetera, id_transaccion)]
    ELSE Put(cs, id_cuenta,
             [CuentaNueva(FALSE) EXCEPT
                 !.transacciones = Put(EmptyMap, id_cafetera, id_transaccion)])

\* a datagram of the machine of order p reaches its Nodo
ReceiveFromCafetera(p) ==
    LET n == NodoDePedido(p)
        id_cafetera == CafeteraDePedido(p)
        mensaje == pedidos[p]
        tipo == udp_al_nodo[p]
        leido == [udp_al_nodo EXCEPT ![p] = "NINGUNO"]
        id_nueva_orden == id_orden[n] + 1
        nueva == new_id_transaccion(n, id_cafetera, id_nueva_orden)
        t == Transaction(p, mensaje.cantidad, id_cafetera, mensaje.id_cuenta)
        en_curso == cuentas[n][mensaje.id_cuenta].transacciones[id_cafetera]
        nada_a_la_cafetera == udp_al_nodo' = leido /\ UNCHANGED pc_cafetera
    IN
    /\ nodo_vivo[n]
    /\ tipo \in {"SUMAR", "RESTAR", "OKEY", "ERROR"}
    /\ IF tipo = "SUMAR"
       THEN /\ id_orden' = [id_orden EXCEPT ![n] = id_nueva_orden]
            /\ cuentas' = [cuentas EXCEPT
                              ![n] = RegistraEnCuenta(@, mensaje.id_cuenta, id_cafetera, nueva)]
            /\ transacciones_suma' = [transacciones_suma EXCEPT ![n] = Put(@, nueva, t)]
            /\ ReceiverActorNodo(leido, {p}, "OKEY")
            /\ UNCHANGED <<transacciones_resta, tcp_nodo_handler, nodo_vivo>>
       ELSE IF tipo = "RESTAR"
       THEN IF nodo_conectado[n]
            THEN /\ id_orden' = [id_orden EXCEPT ![n] = id_nueva_orden]
                 /\ transacciones_resta' = [transacciones_resta EXCEPT ![n] = Put(@, nueva, t)]
                 /\ cuentas' = [cuentas EXCEPT
                                   ![n] = RegistraEnCuenta(@, mensaje.id_cuenta, id_cafetera,
                                                           nueva)]
                 /\ SendHandlerToCoordinator(n,
                        <<Mensaje("STARTER", n, mensaje.id_cuenta, nueva, id_cafetera)>>)
                 /\ nada_a_la_cafetera
                 /\ UNCHANGED transacciones_suma
            ELSE /\ ReceiverActorNodo(leido, {p}, "ERROR")
                 /\ UNCHANGED <<id_orden, cuentas, transacciones_resta, transacciones_suma,
                                tcp_nodo_handler, nodo_vivo>>
       ELSE IF tipo = "OKEY"
       THEN IF en_curso \in DOMAIN transacciones_suma[n]
            THEN IF nodo_conectado[n]
                 THEN /\ transacciones_suma' =
                             [transacciones_suma EXCEPT ![n][en_curso].state = "WaitCommit"]
                      /\ SendHandlerToCoordinator(n,
                             <<MensajeCantidad("FINISH", n, mensaje.id_cuenta, en_curso, "SUMA",
                                               transacciones_suma[n][en_curso].cantidad,
                                               id_cafetera)>>)
                      /\ nada_a_la_cafetera
                      /\ UNCHANGED <<id_orden, cuentas, transacciones_resta>>
                 ELSE /\ transacciones_suma' =
                             [transacciones_suma EXCEPT ![n][en_curso].state = "ToSend"]
                      /\ nada_a_la_cafetera
                      /\ UNCHANGED <<id_orden, cuentas, transacciones_resta,
                                     tcp_nodo_handler, nodo_vivo>>
            ELSE IF en_curso \notin DOMAIN transacciones_resta[n]
            THEN /\ nada_a_la_cafetera
                 /\ UNCHANGED <<id_orden, cuentas, transacciones_resta, transacciones_suma,
                                tcp_nodo_handler, nodo_vivo>>
            ELSE IF nodo_conectado[n]
                 THEN /\ transacciones_resta' =
                             [transacciones_resta EXCEPT ![n][en_curso].state = "WaitCommit"]
                      /\ SendHandlerToCoordinator(n,
                             <<MensajeCantidad("FINISH", n, mensaje.id_cuenta, en_curso, "RESTA",
                                               transacciones_resta[n][en_curso].cantidad,
                                               id_cafetera)>>)
                      /\ nada_a_la_cafetera
                      /\ UNCHANGED <<id_orden, cuentas, transacciones_suma>>
                 ELSE /\ transacciones_resta' =
                             [transacciones_resta EXCEPT ![n][en_curso].state = "Abort"]
                      /\ ReceiverActorNodo(leido, {transacciones_resta[n][en_curso].socket},
                                           "ERROR")
                      /\ UNCHANGED <<id_orden, cuentas, transacciones_suma, tcp_nodo_handler,
                                     nodo_vivo>>
       ELSE \* ERROR: the machine failed to prepare the coffee
            IF en_curso \in DOMAIN transacciones_suma[n]
            THEN /\ transacciones_suma' =
                        [transacciones_suma EXCEPT ![n][en_curso].state = "Abort"]
                 /\ nada_a_la_cafetera
                 /\ UNCHANGED <<id_orden, cuentas, transacciones_resta, tcp_nodo_handler,
                                nodo_vivo>>
            ELSE IF en_curso \in DOMAIN transacciones_resta[n] /\ nodo_conectado[n]
                 THEN /\ transacciones_resta' =
                             [transacciones_resta EXCEPT ![n][en_curso].state = "Abort"]
                      /\ SendHandlerToCoordinator(n,
                             <<Mensaje("ABORT", n, mensaje.id_cuenta, en_curso, id_cafetera)>>)
                      /\ nada_a_la_cafetera
                      /\ UNCHANGED <<id_orden, cuentas, transacciones_suma>>
                 ELSE /\ nada_a_la_cafetera
                      /\ UNCHANGED <<id_orden, cuentas, transacciones_resta,
                                     transacciones_suma, tcp_nodo_handler, nodo_vivo>>
    /\ UNCHANGED <<pedidos, nodo_conectado, stream_cordinador, tcp_handler_nodo,
                   handlerVars, mailbox, coordinadorVars, desconexiones, cafeVars, extraVars>>

\* the operator's DESCONECTAR datagram reaches Nodo n.  The coordinator's own
\* Nodo writes the DISCONNECT line and tells its BullyListener SetState(false);
\* any other Nodo goes offline and shuts the
\* write half of its connection down (a second shutdown of the same half either
\* succeeds again or fails, and the expect on it ends the actor).
ReceiveFromCafetera_DESCONECTAR(n) ==
    /\ desconexiones < MaxDesconexiones
    /\ desconexiones' = desconexiones + 1
    /\ nodo_vivo[n]
    /\ IF n = id_coordinador[n]
       THEN /\ SendHandlerToCoordinator(n, <<Mensaje("DISCONNECT", 0, 0, 0, 0)>>)
            /\ set_state_bully' = [set_state_bully EXCEPT ![n] = Append(@, FALSE)]
            /\ UNCHANGED <<nodo_conectado, stream_cordinador>>
       ELSE /\ UNCHANGED set_state_bully
            /\ nodo_conectado' = [nodo_conectado EXCEPT ![n] = FALSE]
            /\ stream_cordinador' = [stream_cordinador EXCEPT ![n] = "cerrado"]
            /\ IF stream_cordinador[n] = "abierto"
               THEN /\ tcp_nodo_handler' = [tcp_nodo_handler EXCEPT ![n] = Append(@, FIN)]
                    /\ UNCHANGED nodo_vivo
               ELSE /\ UNCHANGED tcp_nodo_handler
                    /\ nodo_vivo' \in { nodo_vivo, [nodo_vivo EXCEPT ![n] = FALSE] }
    /\ UNCHANGED <<pedidos, cafeteraVars, cuentas, transacciones_resta,
                   transacciones_suma, id_orden, tcp_handler_nodo, handlerVars, mailbox,
                   coordinadorVars, cafeVars, idVars>>
    /\ UNCHANGED <<proceso_vivo, estado, bully_conectado, soy_coordinador, timeouts,
                   start_election, udp_bully, id_coordinador, new_coordinator, sede,
                   conexion, por_aceptar, caidas, conexiones>>

NextLedger ==
    \/ Coordinador_Starter
    \/ Coordinador_Yes
    \/ Coordinador_Finish
    \/ Coordinador_OkeyToCoordinator
    \/ Coordinador_OkeyAbortToCoordinator
    \/ Coordinador_Abort
    \/ Coordinador_DisconnectNodo
    \/ Coordinador_Disconnect
    \/ \E n \in Nodos : NodoHandler_handle(n)
    \/ \E n \in Nodos : NodoHandler_finished(n)
    \/ \E n \in Nodos : Nodo_PREPARE(n)
    \/ \E n \in Nodos : Nodo_EXECUTE(n)
    \/ \E n \in Nodos : Nodo_COMMIT(n)
    \/ \E n \in Nodos : Nodo_ABORT(n)
    \/ \E n \in Nodos : Nodo_finished(n)
    \/ \E p \in DOMAIN pedidos : ReceiveFromCafetera(p)
    \/ \E n \in Nodos : ReceiveFromCafetera_DESCONECTAR(n)
    \/ \E p \in DOMAIN pedidos : Cafetera_enviar(p)

SpecLedger == InitLedger /\ [][NextLedger]_vars

\* ------------------------------------------------------------------ ledger properties
\* no Nodo or Coordinador actor has ended and the operator has disconnected no one
CrashFree ==
    /\ desconexiones = 0
    /\ coordinador_vivo
    /\ \A n \in Nodos : nodo_vivo[n]

\* every machine is done with its order and nothing is on its way anywhere
Terminado ==
    /\ \A p \in DOMAIN pedidos :
          /\ pc_cafetera[p] \notin {"enviar", "escuchar_respuesta", "esperar_confirmacion"}
          /\ udp_al_nodo[p] = "NINGUNO"
    /\ mailbox = <<>>
    /\ \A n \in Nodos : tcp_nodo_handler[n] = <<>> /\ tcp_handler_nodo[n] = <<>>

\* the balance of an account at a replica; a replica that has not seen the
\* account would create it with the initial balance
Saldo(n, id_cuenta) ==
    IF id_cuenta \in DOMAIN cuentas[n] THEN cuentas[n][id_cuenta].saldo
    ELSE U32(SALDO_INICIAL)

\* the transactions of one kind on an account that were committed: accepted at the
\* Nodo that originated them
Aceptadas(ts, id_cuenta) ==
    { nt \in Nodos \X (UNION { DOMAIN ts[n] : n \in Nodos }) :
        /\ nt[2] \in DOMAIN ts[nt[1]]
        /\ ts[nt[1]][nt[2]].id_cuenta = id_cuenta
        /\ ts[nt[1]][nt[2]].state = "Accepted" }

RECURSIVE Total(_, _)
\* the exact sum of the amounts of a set of transactions
Total(ts, S) ==
    IF S = {} THEN U32(0)
    ELSE LET nt == CHOOSE x \in S : TRUE
         IN  Mas(ts[nt[1]][nt[2]].cantidad, Total(ts, S \ {nt}))

\* initial balance plus committed Credits minus committed Deducts, exactly
SaldoEsperado(id_cuenta) ==
    Menos(Mas(U32(SALDO_INICIAL),
              Total(transacciones_suma, Aceptadas(transacciones_suma, id_cuenta))),
          Total(transacciones_resta, Aceptadas(transacciones_resta, id_cuenta)))

CuentasDelRun == {1} \cup { pedidos[p].id_cuenta : p \in DOMAIN pedidos }

\* C3: in a crash-free run, once all transactions have finished, every replica's
\* balance of every account is the initial balance plus the committed Credits
\* minus the committed Deducts of the account
C3_ReplicasHoldLedgerBalance ==
    (CrashFree /\ Terminado) =>
        \A n \in Nodos : \A c \in CuentasDelRun : Saldo(n, c) = SaldoEsperado(c)

\* the Deducts of an account the coordinator holds with one of the given statuses
RestasCon(id_cuenta, estados) ==
    { id \in DOMAIN transacciones :
        /\ transacciones[id].tipo = "RESTA"
        /\ transacciones[id].id_cuenta = id_cuenta
        /\ transacciones[id].status \in estados }

\* C4: in every coordinator state, each account has at most one Deduct with
\* status Wait, Execute, Commit or Abort
C4_OneDeductInFlight ==
    \A c \in CuentasDelRun :
        Cardinality(RestasCon(c, {"Wait", "Execute", "Commit", "Abort"})) <= 1

\* C5: never, disconnections included, are two Deducts of one account both past
\* the Prepare quorum and not finished (status Execute or Commit)
C5_OneDeductPastPrepare ==
    \A c \in CuentasDelRun : Cardinality(RestasCon(c, {"Execute", "Commit"})) <= 1

\* a replica is about to apply the Commit of a Deduct larger than its balance
CommitUnderflows(n) ==
    /\ Lee(n, "COMMIT")
    /\ Head(tcp_handler_nodo[n]).commit = "RESTA"
    /\ u32_gt(Head(tcp_handler_nodo[n]).cantidad, Saldo(n, Head(tcp_handler_nodo[n]).id_cuenta))

\* Nodo n handles an Execute whose Deduct exceeds its balance
ExecuteInsuficiente(n) ==
    /\ Lee(n, "EXECUTE")
    /\ tcp_handler_nodo'[n] = Tail(tcp_handler_nodo[n])
    /\ Head(tcp_handler_nodo[n]).id_transaccion \in DOMAIN transacciones_resta[n]
    /\ u32_gt(transacciones_resta[n][Head(tcp_handler_nodo[n]).id_transaccion].cantidad,
              Saldo(n, Head(tcp_handler_nodo[n]).id_cuenta))

\* ... and aborts it: Abort written to the leader (or the write attempted on a
\* closed connection), Error to the machine, no balance touched
ExecuteAborta(n) ==
    LET execute == Head(tcp_handler_nodo[n])
        t == transacciones_resta[n][execute.id_transaccion]
    IN  /\ transacciones_resta'[n][execute.id_transaccion].state = "Abort"
        /\ \/ /\ stream_cordinador[n] = "abierto"
              /\ tcp_nodo_handler'[n] =
                     Append(tcp_nodo_handler[n],
                            Mensaje("ABORT", n, execute.id_cuenta, execute.id_transaccion,
                                    execute.id_cafetera))
           \/ /\ stream_cordinador[n] = "cerrado"
              /\ ~nodo_vivo'[n]
        /\ pc_cafetera[t.socket] = "escuchar_respuesta" =>
               pc_cafetera'[t.socket] = "no_ejecutado"
        /\ cuentas' = cuentas

\* C6: no Commit of a Deduct takes a balance below zero at any replica, and a
\* Deduct that exceeds the originator's balance when Execute is handled is
\* aborted: Abort to the leader, Error to the machine, balance unchanged
C6_NoOverdraft ==
    /\ [](\A n \in Nodos : ~CommitUnderflows(n))
    /\ [][\A n \in Nodos : ExecuteInsuficiente(n) => ExecuteAborta(n)]_vars

\* the state of the Deduct of order p at the Nodo that originated it
EstadosDePedido(p) ==
    { transacciones_resta[NodoDePedido(p)][id].state :
        id \in { i \in DOMAIN transacciones_resta[NodoDePedido(p)] :
                    transacciones_resta[NodoDePedido(p)][i].socket = p } }

\* the run is two Deducts on one account at two Nodos, each within the initial
\* balance, together beyond it
DosRestasEnConflicto ==
    /\ Len(pedidos) = 2
    /\ NodoDePedido(1) # NodoDePedido(2)
    /\ pedidos[1].tipo = "RESTA" /\ pedidos[2].tipo = "RESTA"
    /\ pedidos[1].id_cuenta = pedidos[2].id_cuenta
    /\ ~u32_gt(pedidos[1].cantidad, U32(SALDO_INICIAL))
    /\ ~u32_gt(pedidos[2].cantidad, U32(SALDO_INICIAL))
    /\ u32_gt(Mas(pedidos[1].cantidad, pedidos[2].cantidad), U32(SALDO_INICIAL))

\* C7: two concurrent Deducts on one account at two Nodos, each at most the
\* balance and together more: never both commit, and once the run has finished
\* exactly one has committed and the other has aborted
C7_ExactlyOneCommits ==
    (DosRestasEnConflicto /\ CrashFree) =>
        /\ ~(EstadosDePedido(1) = {"Accepted"} /\ EstadosDePedido(2) = {"Accepted"})
        /\ Terminado =>
              \/ EstadosDePedido(1) = {"Accepted"} /\ EstadosDePedido(2) = {"Abort"}
              \/ EstadosDePedido(1) = {"Abort"} /\ EstadosDePedido(2) = {"Accepted"}

\* both Deducts were submitted, the run finished, one committed and the balance
\* of the account went down by its amount at every replica
C7_Witness ==
    /\ DosRestasEnConflicto /\ CrashFree /\ Terminado
    /\ EstadosDePedido(1) \cup EstadosDePedido(2) = {"Accepted", "Abort"}
    /\ \A n \in Nodos : Saldo(n, 1) = U32(2000)

\* ====================================================================== part A (cont.)
DispenserStep(d) ==
    \/ wait_pedido(d)
    \/ wait_while_containers_states(d)
    \/ lock_for(d)
    \/ dispenser_apply_ingredient(d)
    \/ update_and_notify_state(d)
    \/ notify_order_finished(d)

MainStep == insert_orders \/ send_signal_poweroff_to_dispensers \/ join_dispensers
            \/ join_system_alert

AlertStep == wait_order \/ process_finished_orders \/ join_periodic

PeriodicStep == periodic_lock_states \/ periodic_report

NextCafe ==
    \/ insert_orders
    \/ send_signal_poweroff_to_dispensers
    \/ join_dispensers
    \/ join_system_alert
    \/ \E d \in Dispensers : wait_pedido(d)
    \/ \E d \in Dispensers : wait_while_containers_states(d)
    \/ \E d \in Dispensers : lock_for(d)
    \/ \E d \in Dispensers : dispenser_apply_ingredient(d)
    \/ \E d \in Dispensers : update_and_notify_state(d)
    \/ \E d \in Dispensers : notify_order_finished(d)
    \/ wait_order
    \/ process_finished_orders
    \/ join_periodic
    \/ periodic_lock_states
    \/ periodic_report

\* the cafeteria runs, the servers of the ledger are up and get no order
Init == InitCafe /\ LedgerIdle /\ ExtraIdle

Spec == Init /\ [][NextCafe]_vars

\* every thread that can run is eventually scheduled, and a thread that finds a
\* mutex free again and again eventually takes it (the periodic child sleeps
\* TIME_PERIODIC_ALERT seconds between two locks of ContainersStates)
FairnessCafe ==
    /\ SF_vars(MainStep)
    /\ SF_vars(AlertStep)
    /\ SF_vars(PeriodicStep)
    /\ \A d \in Dispensers : SF_vars(DispenserStep(d))

FairSpec == Init /\ [][NextCafe]_vars /\ FairnessCafe

\* C1: for every finite list of orders a run of start terminates: every dispenser,
\* the SYSTEM-ALERT thread and its periodic child exit and start returns
C1_StartTerminates == <>(pcMain = "done")

\* ------------------------------------------------------------------ wait-for graph
\* the threads a blocked thread waits for: the holder of the mutex it requests, the
\* threads that owe the notify_all of the condvar it sleeps on, the thread it joins
OwesStatesNotify(e, order) ==
    /\ pcD[e] \in {"lock_for", "apply", "relock"}
    /\ requiere(order, chosenD[e])

WaitsFor(t) ==
    IF t \in Dispensers
    THEN CASE pcD[t] = "lock_for" ->
                 IF cmutex[chosenD[t]] # 0 THEN {cmutex[chosenD[t]]} ELSE {}
           [] pcD[t] \in {"wait_states", "relock"} ->
                 IF smutex # 0 THEN {smutex} ELSE {}
           [] pcD[t] = "wait_pedido_blocked" -> {MainThread}
           [] pcD[t] = "wait_states_blocked" ->
                 {e \in Dispensers \ {t} : OwesStatesNotify(e, orders[orderD[t]])}
           [] pcD[t] = "notify_blocked" -> {AlertThread}
           [] OTHER -> {}
    ELSE IF t = MainThread
    THEN IF pcMain \in {"insert_blocked", "poweroff_blocked", "join_dispensers"}
         THEN {d \in Dispensers : pcD[d] # "done"}
         ELSE IF pcMain = "join_system_alert" /\ pcAlert # "done"
              THEN {AlertThread} ELSE {}
    ELSE IF t = AlertThread
    THEN IF pcAlert = "wait_order_blocked"
         THEN {d \in Dispensers : pcD[d] # "done"}
         ELSE IF pcAlert = "join_periodic" /\ pcPeriodic # "done"
              THEN {PeriodicThread} ELSE {}
    ELSE IF pcPeriodic = "sleep" /\ smutex # 0 THEN {smutex} ELSE {}

DeadlockedSet(S) == \A t \in S : WaitsFor(t) # {} /\ WaitsFor(t) \subseteq S

\* C2: no reachable deadlock: there is never a non-empty set of threads each of
\* which is blocked on a mutex held by, a notification owed by, or the exit of,
\* threads of that same set
C2_NoDeadlock == \A S \in (SUBSET Threads) \ {{}} : ~DeadlockedSet(S)

\* a dispenser holds ContainersStates and is blocked in lock_for on a Container
\* mutex another dispenser holds, while the periodic child waits for ContainersStates
\* and the SYSTEM-ALERT thread sleeps on the finished-queue condvar
C2_Witness ==
    /\ \E d \in Dispensers :
          /\ pcD[d] = "lock_for"
          /\ smutex = d
          /\ cmutex[chosenD[d]] \in Dispensers \ {d}
    /\ pcPeriodic = "sleep"
    /\ pcAlert = "wait_order_blocked"

\* ------------------------------------------------------------------ results of a run
RECURSIVE SumRequested(_, _)
SumRequested(tipo, n) ==
    IF n = 0 THEN 0 ELSE requested[n][tipo] + SumRequested(tipo, n - 1)

FinishedWith(status) == {i \in DOMAIN orders : orders[i].status = status}

RunEnded == pcMain = "done"

\* every order asks for one gram of cocoa, there are more orders than grams, and
\* nothing else an order asks for can run out
CocoaBottleneck ==
    /\ Len(orders) > C_CACAO
    /\ \A i \in DOMAIN orders :
          /\ requested[i]["Cacao"] = 1
          /\ requested[i]["CafeMolido"] = 0
          /\ requested[i]["EspumaLeche"] = 0
          /\ requested[i]["Agua"] <= A_AGUA_CALIENTE

\* C8: with K grams of cocoa and M > K orders of one gram of cocoa each, every
\* completed run ends with exactly K orders Completed, M - K orders
\* NoEnoughResourceContainer and no cocoa left
C8_BottleneckCounts ==
    (RunEnded /\ CocoaBottleneck) =>
        /\ Cardinality(FinishedWith(Completed)) = C_CACAO
        /\ Cardinality(FinishedWith(NoEnoughResourceContainer)) = Len(orders) - C_CACAO
        /\ conteiners["Cacao"].quantity = 0

C8_Witness ==
    /\ RunEnded
    /\ CocoaBottleneck
    /\ N_DISPENSERS >= Len(orders)
    /\ Len(ordersFinished) = Len(orders)

\* for every ingredient the orders ask in total for no more than principal + pool
DemandWithinSupply ==
    \A t \in Ingredients : SumRequested(t, Len(orders)) <= Capacity(t) + InitialRecharge(t)

\* no single order asks for more of an ingredient than its container can hold
EveryNeedWithinCapacity ==
    \A i \in DOMAIN orders : \A t \in Ingredients : requested[i][t] <= Capacity(t)

AllCompleted ==
    /\ \A i \in DOMAIN orders : orders[i].status # NoEnoughResourceContainer
    /\ RunEnded => \A i \in DOMAIN orders : orders[i].status = Completed

\* C10 as stated: when the total demand of every ingredient is within its total
\* supply, no order ends NoEnoughResourceContainer and all end Completed
C10_FeasibleAllCompleted == DemandWithinSupply => AllCompleted

\* C10 amended: the same, provided no single order asks for more of an ingredient
\* than the capacity of its container
C10_FeasibleWithinCapacityAllCompleted ==
    (DemandWithinSupply /\ EveryNeedWithinCapacity) => AllCompleted

\* a feasible run with two orders that ended after a rechargeable container reloaded
C10_Witness ==
    /\ RunEnded
    /\ DemandWithinSupply
    /\ EveryNeedWithinCapacity
    /\ Len(orders) >= 2
    /\ \E t \in {"CafeMolido", "EspumaLeche"} :
          conteiners[t].quantity_to_recharge # InitialRecharge(t)

\* ------------------------------------------------------------------ conservation
RECURSIVE SumApplied(_, _)
\* the grams recorded as Applied for an ingredient over the orders 1..n
SumApplied(tipo, n) ==
    IF n = 0 THEN 0
    ELSE (IF orders[n].ingredientes[tipo].st = "Applied"
          THEN orders[n].ingredientes[tipo].v ELSE 0) + SumApplied(tipo, n - 1)

NoRechargables == {t \in Ingredients : ContainerKind(t) = "NoRechargable"}

\* dispenser d runs apply_ingredient on a non-rechargeable container and the
\* order comes back flagged for that ingredient
NoRechargableApplyRefused(d) ==
    /\ pcD[d] = "apply"
    /\ pcD'[d] = "relock"
    /\ chosenD[d] \in NoRechargables
    /\ orders'[orderD[d]].ingredientes[chosenD[d]].st = "NoEnough"

\* C11: for the non-rechargeable container, at every moment the initial quantity
\* minus the current quantity is the sum of the amounts recorded as Applied for
\* its ingredient over all orders, and an apply that flags the order
\* NoEnoughResourceContainer leaves the quantity as it was
C11_NoRechargableConservation ==
    /\ [](\A t \in NoRechargables :
             Capacity(t) - conteiners[t].quantity = SumApplied(t, Len(orders)))
    /\ [][\A d \in Dispensers :
             NoRechargableApplyRefused(d) =>
                 conteiners'[chosenD[d]].quantity = conteiners[chosenD[d]].quantity]_vars

\* one order was refused by an apply on the cocoa container (it asked for more than
\* was left), another got the cocoa, and the container is empty
C11_Witness ==
    /\ \E i \in DOMAIN orders : orders[i].ingredientes["Cacao"].st = "NoEnough"
    /\ \E i \in DOMAIN orders :
          /\ orders[i].ingredientes["Cacao"].st = "Applied"
          /\ orders[i].ingredientes["Cacao"].v > 0
    /\ conteiners["Cacao"].quantity = 0

\* C12: for every ingredient, the grams applied to orders never exceed the initial
\* quantity of its container plus the initial quantity of its reloader
C12_AppliedWithinSupply ==
    \A t \in Ingredients :
        SumApplied(t, Len(orders)) <= Capacity(t) + InitialRecharge(t)

\* ------------------------------------------------------------------ hand-over of orders
InSeq(q, i) == \E k \in DOMAIN q : q[k] = i

Count(q, i) == Cardinality({k \in DOMAIN q : q[k] = i})

\* insert_orders has pushed order i into the pending queue
Inserted(i) == i < nextIdx

\* order i has been pushed into the finished queue
Pushed(i) == InSeq(finishedQ, i) \/ heldAlert = i \/ InSeq(ordersFinished, i)

\* the owners of order i: the queues, the dispensers and the SYSTEM-ALERT thread
Owners(i) ==
    Count(pendingQ, i) + Cardinality({d \in Dispensers : orderD[d] = i})
        + Count(finishedQ, i) + (IF heldAlert = i THEN 1 ELSE 0)
        + Count(ordersFinished, i)

Terminal(i) == orders[i].status \in {Completed, NoEnoughResourceContainer}

\* the SYSTEM-ALERT thread has left process_finished_orders with its result
ReporterExited == pcAlert \in {"join_periodic", "done"}

\* an inserted order has one owner at a time (so one dispenser takes it and it is
\* pushed once), a pushed order is terminal, and the reporter's result holds every
\* order of the file once
HandOverOnce ==
    /\ \A i \in DOMAIN orders : Owners(i) = (IF Inserted(i) THEN 1 ELSE 0)
    /\ \A i \in DOMAIN orders : Pushed(i) => Terminal(i)
    /\ ReporterExited =>
          /\ Len(ordersFinished) = total_orders_to_process
          /\ \A i \in DOMAIN orders : Count(ordersFinished, i) = 1

\* a pushed order is not touched again
PushedIsFrozen ==
    \A i \in DOMAIN orders : Pushed(i) => orders'[i] = orders[i] /\ Pushed(i)'

\* no inserted order is still on its way to the finished queue
EveryInsertedPushed == \A i \in DOMAIN orders : Inserted(i) => Pushed(i)

\* C18: every inserted order is taken by exactly one dispenser, reaches a terminal
\* status and is pushed exactly once into the finished queue; when the reporter
\* exits its result holds each order of the file once, none InProgress, and has
\* the pre-computed length
C18_EveryOrderHandedOverOnce ==
    /\ []HandOverOnce
    /\ [][PushedIsFrozen]_vars
    /\ <>[]EveryInsertedPushed

\* ------------------------------------------------------------------ locks around apply
\* dispenser d is executing apply_ingredient of the container it chose
InsideApply(d) == pcD[d] = "apply"

\* C19: no dispenser holds the ContainersStates mutex while it executes a
\* container's apply_ingredient: whenever a dispenser is inside apply_ingredient
\* the ContainersStates mutex is free or held by another thread
C19_StatesFreeDuringApply == \A d \in Dispensers : InsideApply(d) => smutex # d

\* a dispenser is inside apply_ingredient while another thread holds ContainersStates
C19_Witness ==
    \E d \in Dispensers : InsideApply(d) /\ smutex \in Threads \ {d}

\* dispenser d is between set_taken_state and update_and_notify_state for container t
InSection(d, t) == pcD[d] \in {"apply", "relock"} /\ chosenD[d] = t

\* dispenser d leaves find_rng_any_container_free_for with container t
Selects(d, t) == pcD[d] = "wait_states" /\ chosenD[d] # t /\ chosenD'[d] = t

\* C20: a container whose ContainersStates entry is Taken is never selected by
\* another dispenser, and no two dispensers are between set_taken_state and
\* update_and_notify_state for the same container
C20_TakenNeverSelected ==
    /\ [](\A t \in Ingredients : Cardinality({d \in Dispensers : InSection(d, t)}) <= 1)
    /\ [][\A d \in Dispensers : \A t \in Ingredients :
             Selects(d, t) => states.principal_conteiners[t].state # Taken]_vars

\* two dispensers are in that section at once, for two containers, both Taken
C20_Witness ==
    \E d1, d2 \in Dispensers : \E t1, t2 \in Ingredients :
        /\ d1 # d2 /\ t1 # t2
        /\ InSection(d1, t1) /\ InSection(d2, t2)
        /\ states.principal_conteiners[t1].state = Taken
        /\ states.principal_conteiners[t2].state = Taken

\* ------------------------------------------------------------------ transaction ids
\* Handler<ReceiveFromCafetera> builds the id of every new transaction, Credit or
\* Deduct, from the node's id, the machine id of the datagram (a u8) and the value
\* id_nueva_orden returns (id_orden after += 1, so 1 for the first order of a node)

\* largest value of Nodo.id_orden of an allocation
MaxIdOrden == 11

\* machine ids of the datagrams: the ids main gives the machines of a branch
\* (0, 1, 2) and other values of the u8 field
IdsCafetera == {0, 1, 2, 10, 11, 255}

PedidosConId ==
    [id_nodo : 1..CANT_MAX_NODOS, id_cafetera : IdsCafetera, id_orden : 1..MaxIdOrden]

\* two allocations of one run: a node's counter never repeats, so two allocations
\* of one node differ in id_orden
InitIds ==
    /\ pedido_a \in PedidosConId
    /\ pedido_b \in PedidosConId
    /\ pedido_a.id_nodo = pedido_b.id_nodo => pedido_a.id_orden # pedido_b.id_orden
    /\ id_transaccion_a = 0
    /\ id_transaccion_b = 0
    /\ LedgerIdle
    /\ CafeIdle

AsignarIdA ==
    /\ id_transaccion_a = 0
    /\ id_transaccion_a' =
           new_id_transaccion(pedido_a.id_nodo, pedido_a.id_cafetera, pedido_a.id_orden)
    /\ UNCHANGED <<pedido_a, pedido_b, id_transaccion_b, cafeVars, ledgerVars, bullyVars>>

AsignarIdB ==
    /\ id_transaccion_b = 0
    /\ id_transaccion_b' =
           new_id_transaccion(pedido_b.id_nodo, pedido_b.id_cafetera, pedido_b.id_orden)
    /\ UNCHANGED <<pedido_a, pedido_b, id_transaccion_a, cafeVars, ledgerVars, bullyVars>>

NextIds == AsignarIdA \/ AsignarIdB

SpecIds == InitIds /\ [][NextIds]_vars

\* C17: two distinct triples (node id, machine id, order counter) allocated in one
\* run, on one node or on two, with machine ids 0..255 and counters from 1, never
\* get the same transaction id
C17_IdsUnique ==
    (id_transaccion_a # 0 /\ id_transaccion_b # 0 /\ pedido_a # pedido_b)
        => id_transaccion_a # id_transaccion_b

\* the ids main gives the machines of a branch
IdsCafeteraDeSucursal == {0, 1, 2}

\* the same for the machines a branch starts (ids 0, 1, 2)
C17_IdsUniqueEnSucursal ==
    (/\ id_transaccion_a # 0 /\ id_transaccion_b # 0 /\ pedido_a # pedido_b
     /\ pedido_a.id_cafetera \in IdsCafeteraDeSucursal
     /\ pedido_b.id_cafetera \in IdsCafeteraDeSucursal)
        => id_transaccion_a # id_transaccion_b

\* ------------------------------------------------------------------ fair ledger runs
\* one branch sends one Deduct of 500 points of account 1 to the server that is
\* not the coordinator's
UnaResta == << [id_cuenta |-> 1, tipo |-> "RESTA", cantidad |-> U32(500)] >>

InitUnaResta == pedidos = UnaResta /\ InitServers /\ CafeIdle /\ ExtraIdle

\* the handlers of one actor: an actor that has a message is eventually run
CoordinadorStep ==
    \/ Coordinador_Starter
    \/ Coordinador_Yes
    \/ Coordinador_Finish
    \/ Coordinador_OkeyToCoordinator
    \/ Coordinador_OkeyAbortToCoordinator
    \/ Coordinador_Abort
    \/ Coordinador_DisconnectNodo
    \/ Coordinador_Disconnect

NodoHandlerStep(n) == NodoHandler_handle(n) \/ NodoHandler_finished(n)

NodoStep(n) ==
    \/ Nodo_PREPARE(n)
    \/ Nodo_EXECUTE(n)
    \/ Nodo_COMMIT(n)
    \/ Nodo_ABORT(n)
    \/ Nodo_finished(n)
    \/ \E p \in DOMAIN pedidos : NodoDePedido(p) = n /\ ReceiveFromCafetera(p)

\* the actix runtime runs every actor that has work; the machines and the
\* operator act when they choose
FairnessLedger ==
    /\ WF_vars(CoordinadorStep)
    /\ \A n \in Nodos : WF_vars(NodoHandlerStep(n))
    /\ \A n \in Nodos : WF_vars(NodoStep(n))

FairSpecUnaResta == InitUnaResta /\ [][NextLedger]_vars /\ FairnessLedger

\* the Coordinador is about to handle the end of the connection of Nodo o while a
\* Deduct o started is in its first phase (Prepare sent, status Wait)
OriginadorSeDesconectaEnWait(o) ==
    /\ coordinador_vivo
    /\ coordinador_conectado
    /\ mailbox # <<>>
    /\ Head(mailbox).tipo = "DisconnectNodo"
    /\ Head(mailbox).id_nodo = o
    /\ \E id \in DOMAIN transacciones :
           /\ transacciones[id].from_id_nodo = o
           /\ transacciones[id].tipo = "RESTA"
           /\ transacciones[id].status = "Wait"

\* every replica but o holds every account unlocked and with the initial balance
RestantesDesbloqueadas(o) ==
    \A n \in Nodos \ {o} : \A c \in DOMAIN cuentas[n] :
        /\ ~cuentas[n][c].blocked
        /\ cuentas[n][c].saldo = U32(SALDO_INICIAL)

\* C16: when the originator of a Deduct disconnects from the leader while the
\* Deduct is in Wait, the Deduct is aborted and every remaining replica eventually
\* has the account unlocked with its balance unchanged
C16_OriginatorGoneAccountUnlocked ==
    \A o \in Nodos : OriginadorSeDesconectaEnWait(o) ~> RestantesDesbloqueadas(o)

\* ------------------------------------------------------------------ BullyListener
\* the ids main accepts for a server
Procesos == 1..CANT_MAX_NODOS

\* servers the operator kills in one run
MaxCaidas == 1

\* CONECTAR datagrams the operator sends in one run
MaxConexiones == 1

\* a datagram between BullyListeners: its kind, the id it carries (the sender's)
\* and the server that owns the port it is sent to
Datagrama(tipo, id_nodo, a) == [tipo |-> tipo, id_nodo |-> id_nodo, a |-> a]

\* the process of server i runs (its sockets are bound)
ProcesoCorre(i) == i \in DOMAIN proceso_vivo /\ proceso_vivo[i]

\* try_send(SenderToUdp) of BullyListener n for every server of dests and the
\* send_to of Handler<SenderToUdp>: nothing is sent while the listener is not
\* conectado, and a datagram for a port nobody has bound is lost
SenderToUdp(en_vuelo, conectado, n, tipo, dests) ==
    IF conectado
    THEN en_vuelo (+) SetToBag({ Datagrama(tipo, n, i) : i \in { j \in dests : ProcesoCorre(j) } })
    ELSE en_vuelo

\* the datagrams of kind tipo in flight to server n
Llegan(n, tipo) == { d \in BagToSet(udp_bully) : d.a = n /\ d.tipo = tipo }

\* Addr<Nodo>::try_send(ReceiveNewCoordinator) of BullyListener n
NotificaAlNodo(n, id) ==
    new_coordinator' =
        [new_coordinator EXCEPT ![n] = IF nodo_vivo[n] THEN Append(@, id) ELSE @]

\* what the BullyListener's handlers leave alone outside the listeners
bullyFrame ==
    <<cafeVars, idVars, ledgerVars, proceso_vivo, id_coordinador, sede, conexion,
      por_aceptar, caidas, conexiones>>

\* Handler<StartElection>: Election to every server of higher id, then the sleep
\* of TIMEOUT_OK_BULLY_MILLIS
Bully_StartElection(n) ==
    /\ proceso_vivo[n]
    /\ start_election[n] > 0
    /\ start_election' = [start_election EXCEPT ![n] = @ - 1]
    /\ estado' = [estado EXCEPT ![n] = "WaitingOkey"]
    /\ udp_bully' = SenderToUdp(udp_bully, bully_conectado[n], n, "ELECTION",
                                { i \in Procesos : i > n })
    /\ timeouts' = [timeouts EXCEPT ![n] = @ + 1]
    /\ UNCHANGED <<bully_conectado, soy_coordinador, set_state_bully, new_coordinator>>
    /\ UNCHANGED bullyFrame

\* TIMEOUT_OK_BULLY_MILLIS (ten seconds) is longer than any delivery between the
\* servers: when a sleep ends every Election and Okey has been handled, every
\* StartElection has been taken and every Nodo has seen the end of its connection
EleccionEntregada ==
    /\ \A d \in BagToSet(udp_bully) : d.tipo \notin {"ELECTION", "OKEY"}
    /\ \A m \in DOMAIN proceso_vivo : proceso_vivo[m] => start_election[m] = 0
    /\ \A m \in DOMAIN proceso_vivo :
           (proceso_vivo[m] /\ nodo_vivo[m]) =>
               \A i \in DOMAIN tcp_handler_nodo[m] : tcp_handler_nodo[m][i] # FIN

\* Handler<TimeoutHandler>: without an Okey the listener proclaims itself
\* coordinator and tells every server
Bully_TimeoutHandler(n) ==
    /\ proceso_vivo[n]
    /\ timeouts[n] > 0
    /\ EleccionEntregada
    /\ timeouts' = [timeouts EXCEPT ![n] = @ - 1]
    /\ IF estado[n] = "WaitingOkey"
       THEN /\ soy_coordinador' = [soy_coordinador EXCEPT ![n] = TRUE]
            /\ udp_bully' = SenderToUdp(udp_bully, bully_conectado[n], n, "COORDINATOR",
                                        Procesos)
            /\ estado' = [estado EXCEPT ![n] = "NotExecuting"]
       ELSE /\ estado' = [estado EXCEPT ![n] = "WaitingCoordinator"]
            /\ UNCHANGED <<soy_coordinador, udp_bully>>
    /\ UNCHANGED <<bully_conectado, start_election, set_state_bully, new_coordinator>>
    /\ UNCHANGED bullyFrame

\* Handler<StreamHandlerUdp> and Handler<OkeyBully>; a listener that is not
\* conectado drops every datagram
Bully_OkeyBully(n) ==
    \E d \in Llegan(n, "OKEY") :
        /\ proceso_vivo[n]
        /\ udp_bully' = udp_bully (-) SetToBag({d})
        /\ estado' = [estado EXCEPT
                         ![n] = IF bully_conectado[n] THEN "WaitingCoordinator" ELSE @]
        /\ UNCHANGED <<bully_conectado, soy_coordinador, timeouts, start_election,
                       set_state_bully, new_coordinator>>
        /\ UNCHANGED bullyFrame

\* Handler<StreamHandlerUdp> and Handler<Election>: Okey to the sender and a
\* StartElection to itself
Bully_Election(n) ==
    \E d \in Llegan(n, "ELECTION") :
        /\ proceso_vivo[n]
        /\ IF bully_conectado[n]
           THEN /\ udp_bully' = SenderToUdp(udp_bully (-) SetToBag({d}), TRUE, n, "OKEY",
                                            {d.id_nodo})
                /\ start_election' = [start_election EXCEPT ![n] = @ + 1]
           ELSE /\ udp_bully' = udp_bully (-) SetToBag({d})
                /\ UNCHANGED start_election
        /\ UNCHANGED <<estado, bully_conectado, soy_coordinador, timeouts,
                       set_state_bully, new_coordinator>>
        /\ UNCHANGED bullyFrame

\* Handler<StreamHandlerUdp> and Handler<Coordinator>: the election is over, the
\* Nodo is told the new coordinator
Bully_Coordinator(n) ==
    \E d \in Llegan(n, "COORDINATOR") :
        /\ proceso_vivo[n]
        /\ udp_bully' = udp_bully (-) SetToBag({d})
        /\ IF bully_conectado[n]
           THEN /\ estado' = [estado EXCEPT ![n] = "NotExecuting"]
                /\ NotificaAlNodo(n, d.id_nodo)
           ELSE UNCHANGED <<estado, new_coordinator>>
        /\ UNCHANGED <<bully_conectado, soy_coordinador, timeouts, start_election,
                       set_state_bully>>
        /\ UNCHANGED bullyFrame

\* Handler<StreamHandlerUdp> and Handler<Ping>: only the coordinator answers
Bully_Ping(n) ==
    \E d \in Llegan(n, "PING") :
        /\ proceso_vivo[n]
        /\ udp_bully' =
               IF bully_conectado[n] /\ soy_coordinador[n]
               THEN SenderToUdp(udp_bully (-) SetToBag({d}), TRUE, n, "PINGCORD", {d.id_nodo})
               ELSE udp_bully (-) SetToBag({d})
        /\ UNCHANGED <<estado, bully_conectado, soy_coordinador, timeouts, start_election,
                       set_state_bully, new_coordinator>>
        /\ UNCHANGED bullyFrame

\* Handler<StreamHandlerUdp> and Handler<PingCord>: the Nodo is told who answered
Bully_PingCord(n) ==
    \E d \in Llegan(n, "PINGCORD") :
        /\ proceso_vivo[n]
        /\ udp_bully' = udp_bully (-) SetToBag({d})
        /\ IF bully_conectado[n]
           THEN NotificaAlNodo(n, d.id_nodo)
           ELSE UNCHANGED new_coordinator
        /\ UNCHANGED <<estado, bully_conectado, soy_coordinador, timeouts, start_election,
                       set_state_bully>>
        /\ UNCHANGED bullyFrame

\* Handler<SetState>: going online the listener pings every server, going offline
\* it stops being coordinator
Bully_SetState(n) ==
    /\ proceso_vivo[n]
    /\ set_state_bully[n] # <<>>
    /\ LET msg == Head(set_state_bully[n])
       IN  /\ bully_conectado' = [bully_conectado EXCEPT ![n] = msg]
           /\ udp_bully' = SenderToUdp(udp_bully, msg, n, "PING", Procesos)
           /\ soy_coordinador' = [soy_coordinador EXCEPT ![n] = IF msg THEN @ ELSE FALSE]
    /\ set_state_bully' = [set_state_bully EXCEPT ![n] = Tail(@)]
    /\ UNCHANGED <<estado, timeouts, start_election, new_coordinator>>
    /\ UNCHANGED bullyFrame


\* ------------------------------------------------------------------ connections
\* the connection of Nodo n waits in the listener's queue
EnEspera(n) == \E i \in DOMAIN por_aceptar : por_aceptar[i] = n

\* the Finish of a Credit of Nodo n
FinishDeSuma(n, id) ==
    MensajeCantidad("FINISH", n, transacciones_suma[n][id].id_cuenta, id, "SUMA",
                    transacciones_suma[n][id].cantidad, transacciones_suma[n][id].id_cafetera)

\* Handler<ReceiveNewCoordinator>: the Nodo takes the id, connects to that
\* server's listener and, connected or not, marks every Credit in ToSend
\* WaitCommit and writes its Finish.  The lines of the previous socket that were
\* not read yet stay readable.  A connection to another server than the one the
\* connections went to so far finds that server's Coordinador as it started; the
\* Coordinador left behind is followed no further.
Nodo_ReceiveNewCoordinator(n) ==
    /\ nodo_vivo[n]
    /\ new_coordinator[n] # <<>>
    /\ LET c == Head(new_coordinator[n])
           por_enviar == { id \in DOMAIN transacciones_suma[n] :
                             transacciones_suma[n][id].state = "ToSend" }
           sigue == conexion[n] = c /\ (EnEspera(n) \/ handler_vivo[n])
       IN  /\ id_coordinador' = [id_coordinador EXCEPT ![n] = c]
           /\ transacciones_suma' =
                  [transacciones_suma EXCEPT
                      ![n] = [id \in DOMAIN @ |->
                                 IF id \in por_enviar THEN [@[id] EXCEPT !.state = "WaitCommit"]
                                 ELSE @[id]]]
           /\ \E orden \in Perms(por_enviar) :
                  LET lineas == [i \in DOMAIN orden |-> FinishDeSuma(n, orden[i])]
                  IN  IF ProcesoCorre(c)
                      THEN /\ stream_cordinador' = [stream_cordinador EXCEPT ![n] = "abierto"]
                           /\ nodo_conectado' = [nodo_conectado EXCEPT ![n] = TRUE]
                           /\ conexion' = [conexion EXCEPT ![n] = c]
                           /\ UNCHANGED nodo_vivo
                           /\ IF c = sede
                              THEN /\ por_aceptar' = Append(por_aceptar, n)
                                   /\ tcp_nodo_handler' =
                                          [tcp_nodo_handler EXCEPT
                                              ![n] = (IF sigue THEN @ ELSE <<>>) \o lineas]
                                   /\ UNCHANGED <<sede, mailbox, coordinadorVars, handlerVars>>
                              ELSE /\ sede' = c
                                   /\ por_aceptar' = <<n>>
                                   /\ tcp_nodo_handler' =
                                          [m \in DOMAIN tcp_nodo_handler |->
                                              IF m = n THEN lineas ELSE <<>>]
                                   /\ mailbox' = <<>>
                                   /\ addr_nodos' = {}
                                   /\ transacciones' = EmptyMap
                                   /\ cola' = EmptyMap
                                   /\ coordinador_conectado' = TRUE
                                   /\ coordinador_vivo' = TRUE
                                   /\ handler_vivo' = [m \in DOMAIN handler_vivo |-> FALSE]
                                   /\ handler_conectado' =
                                          [m \in DOMAIN handler_conectado |-> TRUE]
                                   /\ handler_escritura' =
                                          [m \in DOMAIN handler_escritura |-> "cerrado"]
                      ELSE /\ SendHandlerToCoordinator(n, lineas)
                           /\ UNCHANGED <<stream_cordinador, nodo_conectado, conexion, sede,
                                          por_aceptar, mailbox, coordinadorVars, handlerVars>>
    /\ new_coordinator' = [new_coordinator EXCEPT ![n] = Tail(@)]
    /\ UNCHANGED <<pedidos, cafeteraVars, cuentas, transacciones_resta, id_orden,
                   tcp_handler_nodo, desconexiones, cafeVars, idVars>>
    /\ UNCHANGED <<proceso_vivo, estado, bully_conectado, soy_coordinador, timeouts,
                   start_election, set_state_bully, udp_bully, caidas, conexiones>>

\* the lines of queue include the end of the direction
Termina(queue) == \E i \in DOMAIN queue : queue[i] = FIN

\* one turn of the accept loop of empezar_cordinador: the oldest connection is
\* taken, its id byte is read,
\* SetState(true) goes to the Coordinador, the NodoHandler starts, and the loop
\* waits until the Coordinador has taken AddNodo before it accepts again.  The
\* handler of a socket that Nodo n closed has ended before n's next connection is
\* accepted.
Coordinador_accept(n) ==
    /\ por_aceptar # <<>>
    /\ Head(por_aceptar) = n
    /\ ProcesoCorre(sede)
    /\ coordinador_vivo
    /\ \A i \in DOMAIN mailbox : mailbox[i].tipo # "AddNodo"
    /\ ~(handler_vivo[n] /\ Termina(tcp_nodo_handler[n]))
    /\ por_aceptar' = Tail(por_aceptar)
    /\ mailbox' = mailbox \o << Mensaje("SetState", 0, 0, 0, 0), Mensaje("AddNodo", n, 0, 0, 0) >>
    /\ handler_vivo' = [handler_vivo EXCEPT ![n] = TRUE]
    /\ handler_conectado' = [handler_conectado EXCEPT ![n] = TRUE]
    /\ handler_escritura' = [handler_escritura EXCEPT ![n] = "abierto"]
    /\ UNCHANGED <<pedidos, cafeteraVars, nodoVars, nodo_vivo, stream_cordinador,
                   tcp_nodo_handler, tcp_handler_nodo, coordinadorVars, desconexiones,
                   cafeVars, idVars>>
    /\ UNCHANGED <<proceso_vivo, estado, bully_conectado, soy_coordinador, timeouts,
                   start_election, set_state_bully, udp_bully, id_coordinador,
                   new_coordinator, sede, conexion, caidas, conexiones>>

\* Handler<SetState> for Coordinador, sent by the accept loop with estado true
Coordinador_SetState ==
    /\ Recibe("SetState")
    /\ coordinador_conectado' = TRUE
    /\ mailbox' = Tail(mailbox)
    /\ UNCHANGED <<addr_nodos, transacciones, cola, coordinador_vivo, tcp_handler_nodo>>
    /\ UNCHANGED coordinadorFrame

\* Handler<AddNodo>: HashMap::insert of the handler under the Nodo's id
Coordinador_AddNodo ==
    /\ Recibe("AddNodo")
    /\ addr_nodos' = addr_nodos \cup {Head(mailbox).id_nodo}
    /\ mailbox' = Tail(mailbox)
    /\ UNCHANGED <<transacciones, cola, coordinador_conectado, coordinador_vivo,
                   tcp_handler_nodo>>
    /\ UNCHANGED coordinadorFrame

\* the process of the current coordinator l is killed: its actors and sockets are
\* gone, every Nodo connected to it reads the end of its connection, the
\* datagrams for it are lost
Matar(l) ==
    /\ caidas < MaxCaidas
    /\ caidas' = caidas + 1
    /\ proceso_vivo[l]
    /\ soy_coordinador[l]
    /\ sede = l
    /\ proceso_vivo' = [proceso_vivo EXCEPT ![l] = FALSE]
    /\ nodo_vivo' = [nodo_vivo EXCEPT ![l] = FALSE]
    /\ udp_bully' = [d \in { x \in DOMAIN udp_bully : x.a # l } |-> udp_bully[d]]
    /\ timeouts' = [timeouts EXCEPT ![l] = 0]
    /\ start_election' = [start_election EXCEPT ![l] = 0]
    /\ set_state_bully' = [set_state_bully EXCEPT ![l] = <<>>]
    /\ new_coordinator' = [new_coordinator EXCEPT ![l] = <<>>]
    /\ tcp_handler_nodo' =
           [m \in DOMAIN tcp_handler_nodo |->
               IF m = l THEN <<>>
               ELSE IF /\ conexion[m] = l
                       /\ \/ EnEspera(m)
                          \/ handler_vivo[m] /\ handler_escritura[m] = "abierto"
               THEN Append(tcp_handler_nodo[m], FIN)
               ELSE tcp_handler_nodo[m]]
    /\ tcp_nodo_handler' = [m \in DOMAIN tcp_nodo_handler |-> <<>>]
    /\ coordinador_vivo' = FALSE
    /\ mailbox' = <<>>
    /\ handler_vivo' = [m \in DOMAIN handler_vivo |-> FALSE]
    /\ handler_escritura' = [m \in DOMAIN handler_escritura |-> "cerrado"]
    /\ por_aceptar' = <<>>
    /\ UNCHANGED <<pedidos, cafeteraVars, nodoVars, stream_cordinador, handler_conectado,
                   addr_nodos, transacciones, cola, coordinador_conectado, desconexiones,
                   cafeVars, idVars>>
    /\ UNCHANGED <<estado, bully_conectado, soy_coordinador, id_coordinador, sede, conexion,
                   conexiones>>

\* the operator's CONECTAR datagram reaches Nodo n: SetState(true) to its
\* BullyListener, and the Nodo counts itself connected at once
ReceiveFromCafetera_CONECTAR(n) ==
    /\ conexiones < MaxConexiones
    /\ conexiones' = conexiones + 1
    /\ nodo_vivo[n]
    /\ set_state_bully' = [set_state_bully EXCEPT ![n] = Append(@, TRUE)]
    /\ nodo_conectado' = [nodo_conectado EXCEPT ![n] = TRUE]
    /\ UNCHANGED <<pedidos, cafeteraVars, cuentas, transacciones_resta, transacciones_suma,
                   id_orden, nodo_vivo, stream_cordinador, tcp_nodo_handler, tcp_handler_nodo,
                   handlerVars, mailbox, coordinadorVars, desconexiones, cafeVars, idVars>>
    /\ UNCHANGED <<proceso_vivo, estado, bully_conectado, soy_coordinador, timeouts,
                   start_election, udp_bully, id_coordinador, new_coordinator, sede,
                   conexion, por_aceptar, caidas>>


\* ------------------------------------------------------------------ failover
\* one order at the branch of server 2: a Deduct or a Credit on account 1
PedidosDeCaida ==
    { << [id_cuenta |-> 1, tipo |-> "RESTA", cantidad |-> U32(500)] >>,
      << [id_cuenta |-> 1, tipo |-> "SUMA",  cantidad |-> U32(300)] >> }

\* the three servers are up, one machine has one order
InitCaida == pedidos \in PedidosDeCaida /\ InitProcesos(Procesos) /\ CafeIdle /\ ExtraIdle

BullyStep(n) ==
    \/ Bully_StartElection(n)
    \/ Bully_TimeoutHandler(n)
    \/ Bully_OkeyBully(n)
    \/ Bully_Election(n)
    \/ Bully_Coordinator(n)

\* the Coordinador of the server the connections go to, with its accept loop
CoordinadorDeSedeStep ==
    \/ Coordinador_Starter
    \/ Coordinador_Yes
    \/ Coordinador_Finish
    \/ Coordinador_OkeyToCoordinator
    \/ Coordinador_SetState
    \/ Coordinador_AddNodo
    \/ \E n \in Procesos : Coordinador_accept(n)

NodoDeSedeStep(n) ==
    \/ Nodo_PREPARE(n)
    \/ Nodo_EXECUTE(n)
    \/ Nodo_COMMIT(n)
    \/ Nodo_finished(n)
    \/ Nodo_ReceiveNewCoordinator(n)
    \/ \E p \in DOMAIN pedidos : NodoDePedido(p) = n /\ ReceiveFromCafetera(p)

NextCaida ==
    \/ CoordinadorDeSedeStep
    \/ \E n \in Procesos : NodoHandler_handle(n)
    \/ \E n \in Procesos : NodoDeSedeStep(n)
    \/ \E n \in Procesos : BullyStep(n)
    \/ \E p \in DOMAIN pedidos : Cafetera_enviar(p)
    \/ \E l \in Procesos : Matar(l)

\* the actix runtime runs every actor that has work and every machine sends its
\* order; the kill comes when it comes
FairnessCaida ==
    /\ WF_vars(CoordinadorDeSedeStep)
    /\ \A n \in Procesos : WF_vars(NodoHandler_handle(n))
    /\ \A n \in Procesos : WF_vars(NodoDeSedeStep(n))
    /\ \A n \in Procesos : WF_vars(BullyStep(n))
    /\ \A p \in {1} : WF_vars(Cafetera_enviar(p))

FairSpecCaida == InitCaida /\ [][NextCaida]_vars /\ FairnessCaida


\* the servers whose process runs, and the highest id among them
Sobrevivientes == { n \in Procesos : proceso_vivo[n] }

MayorVivo == CHOOSE n \in Sobrevivientes : \A m \in Sobrevivientes : m <= n

\* the coordinator was killed and a surviving BullyListener has a StartElection
\* to handle
EleccionIniciada ==
    /\ caidas > 0
    /\ \E n \in Sobrevivientes : start_election[n] > 0

\* soy_coordinador holds at the highest surviving server and nowhere else, and
\* every surviving Nodo has that server as id_coordinador
Convergido ==
    /\ caidas > 0
    /\ \A n \in Sobrevivientes :
           /\ soy_coordinador[n] <=> n = MayorVivo
           /\ nodo_vivo[n] => id_coordinador[n] = MayorVivo

\* the machine of the Deduct has not sent it yet
RestaPorEnviar == pedidos[1].tipo = "RESTA" /\ pc_cafetera[1] = "enviar"

\* every surviving replica has subtracted the Deduct
RestaComprometida ==
    \A n \in Sobrevivientes :
        Saldo(n, 1) = Menos(U32(SALDO_INICIAL), pedidos[1].cantidad)

\* the election ends at the highest surviving id
C13_EleccionConverge == EleccionIniciada ~> Convergido

\* C13: after the leader is killed and a surviving node starts an election, the
\* highest-id surviving node eventually is the only one with soy_coordinador and
\* the coordinator of every surviving Nodo, and a Deduct submitted after that
\* commits on every surviving replica
C13_FailoverThenDeductCommits ==
    /\ EleccionIniciada ~> Convergido
    /\ (Convergido /\ RestaPorEnviar) ~> RestaComprometida


\* the Nodo of the order's branch
NodoDelCredito == NodoDePedido(1)

\* the Nodo answered Okey to the machine's Sumar and holds the Credit in state s
CreditoEn(s) ==
    /\ pedidos[1].tipo = "SUMA"
    /\ \E id \in DOMAIN transacciones_suma[NodoDelCredito] :
           transacciones_suma[NodoDelCredito][id].state = s

\* the server the Credit's Nodo is connected to was killed
LiderCaido == caidas > 0 /\ ~proceso_vivo[conexion[NodoDelCredito]]

\* every surviving replica has added the Credit
CreditoComprometido ==
    \A n \in Sobrevivientes :
        Saldo(n, 1) = Mas(U32(SALDO_INICIAL), pedidos[1].cantidad)

\* the Credit was in WaitCommit when the leader was killed: its Finish was written
\* before the kill and nothing was written since
FinishPerdido ==
    /\ CreditoEn("WaitCommit")
    /\ LiderCaido
    /\ tcp_nodo_handler[NodoDelCredito] = <<>>

\* the Nodo holds the Credit it accepted, not committed yet, and the leader runs
CreditoAceptado ==
    /\ caidas = 0
    /\ \E s \in {"Wait", "WaitCommit", "ToSend"} : CreditoEn(s)

\* C15: a Credit a replica accepted is eventually committed on every live
\* replica, also when its leader is killed before the Credit is committed,
\* whatever the Credit's state (Wait, WaitCommit or ToSend) when the leader dies
C15_CreditSurvivesFailover == CreditoAceptado ~> CreditoComprometido

\* the part of C15 for a Credit whose Finish went to the killed leader
C15_FinishPerdidoSeRecupera == FinishPerdido ~> CreditoComprometido

\* the part of C15 for a Credit that waits in ToSend
C15_ToSendSeCompromete == (CreditoEn("ToSend") /\ LiderCaido) ~> CreditoComprometido


\* ------------------------------------------------------------------ reconnection
\* the three servers are up and no machine has an order
InitReconexion == pedidos = <<>> /\ InitProcesos(Procesos) /\ CafeIdle /\ ExtraIdle

BullyDeOperadorStep(n) ==
    \/ BullyStep(n)
    \/ Bully_SetState(n)
    \/ Bully_Ping(n)
    \/ Bully_PingCord(n)

CoordinadorDeOperadorStep ==
    \/ Coordinador_DisconnectNodo
    \/ Coordinador_Disconnect
    \/ Coordinador_SetState
    \/ Coordinador_AddNodo
    \/ \E n \in Procesos : Coordinador_accept(n)

NodoDeOperadorStep(n) == Nodo_finished(n) \/ Nodo_ReceiveNewCoordinator(n)

NextReconexion ==
    \/ CoordinadorDeOperadorStep
    \/ \E n \in Procesos : NodoHandlerStep(n)
    \/ \E n \in Procesos : NodoDeOperadorStep(n)
    \/ \E n \in Procesos : BullyDeOperadorStep(n)
    \/ \E n \in Procesos : ReceiveFromCafetera_DESCONECTAR(n)
    \/ \E n \in Procesos : ReceiveFromCafetera_CONECTAR(n)

\* the actix runtime runs every actor that has work; the operator acts when they
\* choose
FairnessReconexion ==
    /\ WF_vars(CoordinadorDeOperadorStep)
    /\ \A n \in Procesos : WF_vars(NodoHandlerStep(n))
    /\ \A n \in Procesos : WF_vars(NodoDeOperadorStep(n))
    /\ \A n \in Procesos : WF_vars(BullyDeOperadorStep(n))

FairSpecReconexion == InitReconexion /\ [][NextReconexion]_vars /\ FairnessReconexion

\* server n was disconnected by the operator (its Nodo shut its connection down,
\* or its BullyListener was told SetState(false)) and its BullyListener is about
\* to handle the SetState(true) of the operator's CONECTAR
Reconectando(n) ==
    /\ proceso_vivo[n]
    /\ set_state_bully[n] # <<>>
    /\ Head(set_state_bully[n])
    /\ stream_cordinador[n] = "cerrado" \/ ~bully_conectado[n]

\* every live Nodo has the highest live server as id_coordinador, and that
\* server's BullyListener has soy_coordinador
TodosConElMayor ==
    /\ soy_coordinador[MayorVivo]
    /\ \A n \in Sobrevivientes : nodo_vivo[n] => id_coordinador[n] = MayorVivo

\* C14: after a node is disconnected by the operator and reconnected, the
\* highest-id live node eventually is the coordinator every live node uses, also
\* when the reconnecting node has the highest id
C14_ReconnectHighestLeads ==
    \A n \in Procesos : Reconectando(n) ~> TodosConElMayor

\* the part of C14 for the reconnection of the server that was coordinator
C14_ReconectaElCoordinador ==
    (Reconectando(ID_CORDINADOR_INICIAL) /\ ~bully_conectado[ID_CORDINADOR_INICIAL])
        ~> TodosConElMayor

\* ------------------------------------------------------------------ lock order
\* dispenser d holds the ContainersStates guard and is blocked in lock_for on a
\* Container mutex
WaitsContainerHoldingStates(d) ==
    pcD[d] = "lock_for" /\ smutex = d /\ cmutex[chosenD[d]] # 0

\* the entry of container t is Free while a dispenser still holds its mutex
FreeEntryStillLocked(t) ==
    states.principal_conteiners[t].state = Free /\ cmutex[t] \in Dispensers

\* C21: a dispenser releases ContainersStates before it acquires the chosen
\* container's mutex, so no dispenser waits for a Container mutex while holding
\* ContainersStates, and no container whose entry is Free is still locked by the
\* dispenser that last used it
C21_StatesReleasedBeforeContainerLock ==
    /\ \A d \in Dispensers : ~WaitsContainerHoldingStates(d)
    /\ \A t \in Ingredients : ~FreeEntryStillLocked(t)

\* the second half of C21 alone
C21_FreeEntryUnlocked == \A t \in Ingredients : ~FreeEntryStillLocked(t)

\* the first half of C21 alone
C21_NoWaitHoldingStates == \A d \in Dispensers : ~WaitsContainerHoldingStates(d)

\* dispenser d holds a Container mutex and requests the ContainersStates mutex
RequestsStatesHoldingContainer(d) ==
    pcD[d] = "relock" /\ cmutex[chosenD[d]] = d

\* C22: a dispenser releases the Container mutex before it re-acquires the
\* ContainersStates mutex: no thread requests ContainersStates while holding a
\* Container mutex
C22_ContainerReleasedBeforeStates ==
    \A d \in Dispensers : ~RequestsStatesHoldingContainer(d)

\* ------------------------------------------------------------------ cancelled orders
\* the order still has a NotApplied amount > 0 of ingredient t
StillRequires(order, t) ==
    order.ingredientes[t].st = "NotApplied" /\ order.ingredientes[t].v > 0

\* the entry of a container the order still requires is NoEnoughResource
RequiresDepleted(order) ==
    \E t \in Ingredients :
        StillRequires(order, t) /\ states.principal_conteiners[t].state = NoEnoughResource

\* the step in which dispenser d leaves wait_while_containers_states: with a
\* depleted required container the order is cancelled as it is, otherwise it is
\* not cancelled
EvaluationStep(d) ==
    (pcD[d] = "wait_states" /\ pcD'[d] # "wait_states") =>
        IF RequiresDepleted(orders[orderD[d]])
        THEN /\ pcD'[d] = "notify"
             /\ orders'[orderD[d]].status = NoEnoughResourceContainer
             /\ orders'[orderD[d]].ingredientes = orders[orderD[d]].ingredientes
             /\ conteiners' = conteiners
        ELSE /\ pcD'[d] # "notify"
             /\ orders'[orderD[d]] = orders[orderD[d]]

\* a cancelled order has no further ingredient applied
CancelledIsFrozen ==
    \A i \in DOMAIN orders :
        orders[i].status = NoEnoughResourceContainer => orders'[i] = orders[i]

\* the step in which dispenser d leaves notify_order_finished pushes its order
LeavesNotifyPushing(d) ==
    (pcD[d] \in {"notify", "notify_blocked"} /\ pcD'[d] \notin {"notify", "notify_blocked"})
        => finishedQ' = PushFront(finishedQ, orderD[d])

\* dispenser d cancelled its order in wait_while_containers_states
Cancelled(d) == pcD[d] = "notify" /\ orders[orderD[d]].status = NoEnoughResourceContainer

\* C23: when a dispenser evaluates an order under the ContainersStates lock and a
\* container the order still requires is depleted, the order is marked
\* NoEnoughResourceContainer and pushed to the finished queue with no further
\* ingredient applied, even if another required container is Free; ingredients
\* already Applied do not count as required
C23_DepletedCancelsOrder ==
    /\ [][\A d \in Dispensers : EvaluationStep(d) /\ LeavesNotifyPushing(d)]_vars
    /\ [][CancelledIsFrozen]_vars

\* under fair scheduling the dispenser that cancelled an order gets through
\* notify_order_finished
C23_CancelledGetsPushed ==
    \A d \in Dispensers : Cancelled(d) ~> (pcD[d] \notin {"notify", "notify_blocked"})

\* a dispenser is about to evaluate an order that still requires the depleted
\* cocoa and the Free water, and another one an order that took its cocoa before
\* the container ran out and still requires water
C23_Witness ==
    /\ smutex = 0
    /\ states.principal_conteiners["Cacao"].state = NoEnoughResource
    /\ states.principal_conteiners["Agua"].state = Free
    /\ \E d \in Dispensers :
          /\ pcD[d] = "wait_states"
          /\ StillRequires(orders[orderD[d]], "Cacao")
          /\ StillRequires(orders[orderD[d]], "Agua")
    /\ \E e \in Dispensers :
          /\ pcD[e] = "wait_states"
          /\ orders[orderD[e]].ingredientes["Cacao"].st = "Applied"
          /\ StillRequires(orders[orderD[e]], "Agua")

\* ------------------------------------------------------------------ selection
\* the containers that are Free and whose ingredient the order still requires
Candidates(order) ==
    {t \in Ingredients :
        states.principal_conteiners[t].state = Free /\ StillRequires(order, t)}

\* wait_while_containers_states returns Ok to dispenser d, which then selects
SelectionAttempted(d) ==
    /\ pcD[d] = "wait_states"
    /\ smutex = 0
    /\ ~container_without_resource_for(states, orders[orderD[d]])
    /\ order_is_processable(states, orders[orderD[d]])

\* the step in which dispenser d selects a container
SelectionStep(d) ==
    (pcD[d] = "wait_states" /\ pcD'[d] \in {"lock_for", "apply"})
        => chosenD'[d] \in Candidates(orders[orderD[d]])

\* the step in which dispenser d applies an ingredient finds it NotApplied
ApplyStep(d) ==
    (pcD[d] = "apply" /\ pcD'[d] = "relock")
        => StillRequires(orders[orderD[d]], chosenD[d])

\* an Applied ingredient of an order is not applied again
AppliedOnce ==
    \A i \in DOMAIN orders : \A t \in Ingredients :
        orders[i].ingredientes[t].st = "Applied"
            => orders'[i].ingredientes[t] = orders[i].ingredientes[t]

\* C24: the container a dispenser selects for an order is Free and its ingredient
\* is one the order requires with a NotApplied amount > 0; so each ingredient of
\* an order is applied at most once, and selection is never attempted on an empty
\* candidate set
C24_SelectsFreeRequired ==
    /\ [](\A d \in Dispensers :
             SelectionAttempted(d) => Candidates(orders[orderD[d]]) # {})
    /\ [][\A d \in Dispensers : SelectionStep(d) /\ ApplyStep(d)]_vars
    /\ [][AppliedOnce]_vars

\* a dispenser selected the second ingredient of an order whose first is Applied,
\* while the other dispenser attempts a selection with one candidate left
C24_Witness ==
    \E d \in Dispensers : \E e \in Dispensers \ {d} :
        /\ pcD[d] = "apply"
        /\ StillRequires(orders[orderD[d]], chosenD[d])
        /\ \E t \in Ingredients : orders[orderD[d]].ingredientes[t].st = "Applied"
        /\ SelectionAttempted(e)
        /\ Cardinality(Candidates(orders[orderD[e]])) = 1

\* ------------------------------------------------------------------ rechargeable containers
Rechargables == {t \in Ingredients : ContainerKind(t) = "Rechargable"}

\* C25: the pool of every rechargeable container (quantity_to_recharge) is >= 0
\* in every reachable state: a reload never takes more from the pool than it
\* holds, also when the order fits in quantity + pool but the pool holds less
\* than capacity - quantity
C25_ReloaderNonNegative ==
    \A t \in Rechargables :
        /\ conteiners[t].quantity_to_recharge >= 0
        /\ states.quantity_to_recharge[t] >= 0

\* dispenser d has run apply_ingredient on the rechargeable container it chose
AfterRechargableApply(d) == pcD[d] = "relock" /\ chosenD[d] \in Rechargables

\* the apply of dispenser d refused the order because it asks for more than the
\* capacity of the container
RefusedOverCapacity(d) ==
    /\ orders[orderD[d]].ingredientes[chosenD[d]].st = "NoEnough"
    /\ requested[orderD[d]][chosenD[d]] > Capacity(chosenD[d])

\* C26: after any apply on a rechargeable container (success, reload, or refusal
\* for lack of resource) its state is NoEnoughResource if and only if quantity = 0
\* and the pool is 0, and Free otherwise; a refusal because the order needs more
\* than the capacity leaves it Free
C26_DepletedIffEmpty ==
    \A d \in Dispensers :
        AfterRechargableApply(d) =>
            LET c == conteiners[chosenD[d]] IN
            IF RefusedOverCapacity(d)
            THEN c.state = Free
            ELSE c.state = (IF c.quantity = 0 /\ c.quantity_to_recharge = 0
                            THEN NoEnoughResource ELSE Free)

\* what is in a rechargeable container, in its pool and in the orders
Balance(t) ==
    conteiners[t].quantity + conteiners[t].quantity_to_recharge
        + SumApplied(t, Len(orders))

\* the apply step of dispenser d on a rechargeable container changes its pool
ReloadStep(d) ==
    /\ pcD[d] = "apply"
    /\ pcD'[d] = "relock"
    /\ chosenD[d] \in Rechargables
    /\ conteiners'[chosenD[d]].quantity_to_recharge
          # conteiners[chosenD[d]].quantity_to_recharge

\* a reload fills the container to its capacity, out of which the order is
\* served, and takes capacity - quantity_before from the pool
ReloadsToCapacity(d) ==
    LET t == chosenD[d] IN
    ReloadStep(d) =>
        /\ conteiners'[t].quantity_to_recharge =
              conteiners[t].quantity_to_recharge - (Capacity(t) - conteiners[t].quantity)
        /\ conteiners'[t].quantity =
              Capacity(t) - orders'[orderD[d]].ingredientes[t].v
        /\ orders'[orderD[d]].ingredientes[t].st = "Applied"

PoolNeverGrows ==
    \A t \in Rechargables :
        conteiners'[t].quantity_to_recharge <= conteiners[t].quantity_to_recharge

\* C27: for each rechargeable container quantity + pool + the amounts applied
\* from it is constant over every sequence of applies: a reload sets quantity to
\* capacity and lowers the pool by exactly capacity - quantity_before, once per
\* apply, and the pool never increases
C27_RechargableConservation ==
    /\ [](\A t \in Rechargables : Balance(t) = Capacity(t) + InitialRecharge(t))
    /\ [][\A d \in Dispensers : ReloadsToCapacity(d)]_vars
    /\ [][PoolNeverGrows]_vars

\* an apply has just reloaded the ground coffee container, which had served an
\* order without reload before
C27_Witness ==
    \E d \in Dispensers :
        /\ pcD[d] = "relock"
        /\ chosenD[d] = "CafeMolido"
        /\ conteiners["CafeMolido"].quantity_to_recharge # InitialRecharge("CafeMolido")
        /\ orders[orderD[d]].ingredientes["CafeMolido"].st = "Applied"
        /\ \E i \in DOMAIN orders :
              /\ i # orderD[d]
              /\ orders[i].ingredientes["CafeMolido"].st = "Applied"
        /\ states.quantity_to_recharge["CafeMolido"] = InitialRecharge("CafeMolido")

\* ------------------------------------------------------------------ non-rechargeable container
\* the dispenser that applied from container t has not written its entry yet
EntryNotYetWritten(t) == \E d \in Dispensers : pcD[d] = "relock" /\ chosenD[d] = t

\* an empty non-rechargeable container is NoEnoughResource, and so is its entry
\* as soon as the dispenser that emptied it has written it
EmptyIsDepleted ==
    \A t \in NoRechargables :
        conteiners[t].quantity = 0 =>
            /\ conteiners[t].state = NoEnoughResource
            /\ \/ states.principal_conteiners[t].state = NoEnoughResource
               \/ /\ states.principal_conteiners[t].state = Taken
                  /\ EntryNotYetWritten(t)

\* the quantity never grows, a depleted container and a depleted entry stay so,
\* and no step sets the entry of an empty container to Free or to Taken
StaysDepleted ==
    \A t \in NoRechargables :
        /\ conteiners'[t].quantity <= conteiners[t].quantity
        /\ conteiners[t].state = NoEnoughResource
              => conteiners'[t].state = NoEnoughResource
        /\ states.principal_conteiners[t].state = NoEnoughResource
              => states'.principal_conteiners[t].state = NoEnoughResource
        /\ conteiners[t].quantity = 0
              => states'.principal_conteiners[t].state
                    \in {states.principal_conteiners[t].state, NoEnoughResource}

\* C28: the quantity of the non-rechargeable container never increases, and once
\* it reaches 0 the container is NoEnoughResource and stays so for the rest of
\* the run, in the container and in its ContainersStates entry: no later
\* operation sets it back to Free or Taken
C28_NoRechargableStaysDepleted ==
    /\ []EmptyIsDepleted
    /\ [][StaysDepleted]_vars

\* the cocoa container is empty and marked depleted in both places, and a later
\* order that asked for cocoa was cancelled because of it
C28_Witness ==
    /\ conteiners["Cacao"].quantity = 0
    /\ conteiners["Cacao"].state = NoEnoughResource
    /\ states.principal_conteiners["Cacao"].state = NoEnoughResource
    /\ \E i \in DOMAIN orders :
          /\ orders[i].status = NoEnoughResourceContainer
          /\ StillRequires(orders[i], "Cacao")

\* ------------------------------------------------------------------ pending queue
\* a step that pushes into the pending queue finds fewer than N_DISPENSERS orders
PushesBelowLimit ==
    Len(pendingQ') > Len(pendingQ) =>
        /\ Len(pendingQ) < N_DISPENSERS
        /\ pendingQ' = PushFront(pendingQ, nextIdx)

\* the producer sleeping on the condvar is woken by the pop of a dispenser
WokenByPop ==
    (pcMain = "insert_blocked" /\ pcMain' # "insert_blocked") =>
        /\ pcMain' = "insert"
        /\ pendingQ' = PopBack(pendingQ)

\* C29: the pending queue never holds more than N_DISPENSERS orders: the producer
\* pushes an order only when the queue holds fewer than N_DISPENSERS, and
\* otherwise waits on the condvar of the queue until a dispenser pops one
C29_PendingWithinLimit ==
    /\ [](Len(pendingQ) <= N_DISPENSERS)
    /\ [](pcMain = "insert_blocked" => Len(pendingQ) = N_DISPENSERS)
    /\ [][PushesBelowLimit /\ WokenByPop]_vars

\* the queue is full and the producer waits with orders left to insert
C29_Witness ==
    /\ pcMain = "insert_blocked"
    /\ Len(pendingQ) = N_DISPENSERS
    /\ nextIdx <= Len(orders)

\* ------------------------------------------------------------------ power-off
\* the step that replaces the pending queue by None finds it empty
SentinelOnEmptyQueue == (pendingSome /\ ~pendingSome') => pendingQ = <<>>

\* the None is not taken back, and no order is pushed after it
SentinelStays == ~pendingSome => (~pendingSome' /\ pendingQ' = pendingQ)

AllDispensersExited == \A d \in Dispensers : pcD[d] = "done"

NoneAsleepOnPending == \A d \in Dispensers : pcD[d] # "wait_pedido_blocked"

\* C30: None replaces the pending queue only when the queue is empty, and after
\* that every dispenser eventually observes None and exits its loop: none stays
\* blocked forever on the condvar of the pending queue, whichever wakes first
C30_SentinelStopsEveryDispenser ==
    /\ [][SentinelOnEmptyQueue]_vars
    /\ ~pendingSome ~> AllDispensersExited

\* the parts of C30 about the queue and its condvar alone
C30_SentinelInstalledOnEmpty ==
    /\ [][SentinelOnEmptyQueue /\ SentinelStays]_vars
    /\ ~pendingSome ~> []NoneAsleepOnPending

\* ------------------------------------------------------------------ three servers
\* the three servers of a run are up (coordinator on server ID_CORDINADOR_INICIAL),
\* the branch of server 2 sends one Deduct of 500 points of account 1, and the
\* operator may disconnect any server; nobody is killed and nobody reconnects
InitTresServidores ==
    pedidos = UnaResta /\ InitProcesos(Procesos) /\ CafeIdle /\ ExtraIdle

NextTresServidores ==
    \/ CoordinadorStep
    \/ \E n \in Procesos : NodoHandlerStep(n)
    \/ \E n \in Procesos : NodoStep(n)
    \/ \E n \in Procesos : ReceiveFromCafetera_DESCONECTAR(n)
    \/ \E p \in DOMAIN pedidos : Cafetera_enviar(p)

SpecTresServidores == InitTresServidores /\ [][NextTresServidores]_vars

FairnessTresServidores ==
    /\ WF_vars(CoordinadorStep)
    /\ \A n \in Procesos : WF_vars(NodoHandlerStep(n))
    /\ \A n \in Procesos : WF_vars(NodoStep(n))

FairSpecTresServidores ==
    InitTresServidores /\ [][NextTresServidores]_vars /\ FairnessTresServidores

\* ------------------------------------------------------------------ C31..C40
\* the Coordinador's step writes a line of kind tipo to the handler of node n
EscribeAlNodo(n, tipo) ==
    /\ Len(tcp_handler_nodo'[n]) = Len(tcp_handler_nodo[n]) + 1
    /\ tcp_handler_nodo'[n][Len(tcp_handler_nodo'[n])].tipo = tipo

\* the transaction of the line just written to node n
Escrita(n) == tcp_handler_nodo'[n][Len(tcp_handler_nodo'[n])].id_transaccion

\* the nodes whose Yes the Coordinador has counted for transaction id
YesDe(tr, id) == { tr[id].yes_nodos[i] : i \in DOMAIN tr[id].yes_nodos }

\* C31: the Coordinador sends Execute for a Deduct only to that Deduct's
\* originator, and only when every follower that is in its peer set at that
\* moment has answered Yes to that Deduct's Prepare, also when followers left
\* or joined between the Prepare broadcast and the Yes replies
C31_ExecuteAfterEveryYes ==
    [][\A n \in DOMAIN tcp_handler_nodo :
          EscribeAlNodo(n, "EXECUTE") =>
              /\ Escrita(n) \in DOMAIN transacciones'
              /\ transacciones'[Escrita(n)].from_id_nodo = n
              /\ \A f \in addr_nodos' : f \in YesDe(transacciones', Escrita(n))]_vars

\* the first half alone: Execute goes to the originator and to nobody else
C31_ExecuteSoloAlOriginador ==
    [][\A n \in DOMAIN tcp_handler_nodo :
          EscribeAlNodo(n, "EXECUTE") =>
              /\ Escrita(n) \in DOMAIN transacciones'
              /\ transacciones'[Escrita(n)].from_id_nodo = n]_vars

\* the Deducts of the account of transaction id, other than id, that the
\* Coordinador has started and not finished
EnCursoAdemasDe(tr, id) ==
    { o \in DOMAIN tr \ {id} :
        /\ tr[o].tipo = "RESTA"
        /\ tr[o].id_cuenta = tr[id].id_cuenta
        /\ tr[o].status \notin {"Uninitialized", "Done", "Abort"} }

\* the Prepare written in this step is for the oldest Deduct still queued for
\* its account, and no other Deduct of that account is in progress
PrepareEnOrden ==
    \A n \in DOMAIN tcp_handler_nodo :
        EscribeAlNodo(n, "PREPARE") =>
            /\ Escrita(n) \in DOMAIN transacciones'
            /\ transacciones'[Escrita(n)].id_cuenta \in DOMAIN cola'
            /\ cola'[transacciones'[Escrita(n)].id_cuenta] # <<>>
            /\ Head(cola'[transacciones'[Escrita(n)].id_cuenta]) = Escrita(n)
            /\ EnCursoAdemasDe(transacciones', Escrita(n)) = {}

\* C32: the Deducts of one account are broadcast Prepare in the order their
\* Starters reached the Coordinador (the order of the account's queue), one at a
\* time: a Prepare is broadcast for a queued Deduct only when every Deduct of
\* the account that was started before it has finished (Done or Abort)
C32_PrepareInStarterOrder == [][PrepareEnOrden]_vars

\* the same in runs without crash or disconnection
C32_EnOrdenSinDesconexion == [][CrashFree => PrepareEnOrden]_vars

\* the OkAbort at the head of the mailbox is the last one its transaction waits
\* for: with it ok_nodos is as long as addr_nodos
AbortCompleta ==
    /\ Recibe("OKEYABORT")
    /\ coordinador_conectado
    /\ Head(mailbox).id_transaccion \in DOMAIN transacciones
    /\ Len(transacciones[Head(mailbox).id_transaccion].ok_nodos) + 1
           = Cardinality(addr_nodos)

\* queue q without transaction id
SinTransaccion(q, id) == SelectSeq(q, LAMBDA x : x # id)

\* C33: when an Abort completes (OkAbort received from every follower), the
\* transaction removed from its account's queue is the aborted transaction
\* itself, at the head or behind it; no other transaction is removed
C33_AbortRemovesAborted ==
    [][(AbortCompleta /\ mailbox' = Tail(mailbox)) =>
          \A c \in DOMAIN cola :
              /\ c \in DOMAIN cola'
              /\ cola'[c] = SinTransaccion(cola[c], Head(mailbox).id_transaccion)]_vars

\* the same when the aborted transaction is the head of its account's queue
C33_AbortDeLaCabeza ==
    [][(/\ AbortCompleta /\ mailbox' = Tail(mailbox)
        /\ \E c \in DOMAIN cola :
               cola[c] # <<>> /\ Head(cola[c]) = Head(mailbox).id_transaccion) =>
          \A c \in DOMAIN cola :
              /\ c \in DOMAIN cola'
              /\ cola'[c] = SinTransaccion(cola[c], Head(mailbox).id_transaccion)]_vars

\* the Deduct of the run: the first order of the machine of its server
LaResta == new_id_transaccion(NodoDePedido(1), CafeteraDePedido(1), 1)

\* the Coordinador has handled the disconnection of a follower that is neither
\* the coordinator's own Nodo nor the originator of the Deduct, and the
\* originator is still connected on both sides
SeguidorFuera ==
    /\ coordinador_vivo /\ coordinador_conectado
    /\ LaResta \in DOMAIN transacciones
    /\ \E f \in Procesos \ {ID_CORDINADOR_INICIAL, transacciones[LaResta].from_id_nodo} :
           addr_nodos = Procesos \ {f}
    /\ nodo_vivo[transacciones[LaResta].from_id_nodo]
    /\ nodo_conectado[transacciones[LaResta].from_id_nodo]

StatusDeLaResta(S) == LaResta \in DOMAIN transacciones /\ transacciones[LaResta].status \in S

\* C34: when a follower disconnects, a transaction in flight that was started by
\* another follower, still connected, keeps progressing with the replies of the
\* followers that remain: awaiting Yes it eventually reaches Execute, awaiting
\* Ok it eventually reaches Done, whatever had been counted before
C34_DeductSurvivesFollowerLeaving ==
    /\ (SeguidorFuera /\ StatusDeLaResta({"Wait"}))
           ~> StatusDeLaResta({"Execute", "Commit", "Done"})
    /\ (SeguidorFuera /\ StatusDeLaResta({"Commit"})) ~> StatusDeLaResta({"Done"})

\* the half of C34 about the first phase alone
C34_EsperandoYes ==
    (SeguidorFuera /\ StatusDeLaResta({"Wait"}))
        ~> StatusDeLaResta({"Execute", "Commit", "Done"})

\* the half of C34 about the second phase alone
C34_EsperandoOk ==
    (SeguidorFuera /\ StatusDeLaResta({"Commit"})) ~> StatusDeLaResta({"Done"})

\* the balance of account c in the accounts cs of a replica (an account the
\* replica has not seen would be created with the initial balance)
SaldoEn(cs, c) == IF c \in DOMAIN cs THEN cs[c].saldo ELSE U32(SALDO_INICIAL)

\* the step changes a balance at replica n
CambiaSaldo(n) ==
    \E c \in (DOMAIN cuentas[n]) \cup (DOMAIN cuentas'[n]) :
        SaldoEn(cuentas'[n], c) # SaldoEn(cuentas[n], c)

\* the step is replica n taking a Commit line from its connection
ManejaCommit(n) ==
    /\ Lee(n, "COMMIT")
    /\ tcp_handler_nodo'[n] = Tail(tcp_handler_nodo[n])

Desbloquea(n, c) ==
    /\ c \in DOMAIN cuentas[n] /\ cuentas[n][c].blocked
    /\ c \in DOMAIN cuentas'[n] /\ ~cuentas'[n][c].blocked

\* the step is replica n taking from its connection the Commit of a Deduct, or
\* an Abort, of account c
ManejaFinDeResta(n, c) ==
    /\ nodo_vivo[n]
    /\ tcp_handler_nodo[n] # <<>>
    /\ tcp_handler_nodo'[n] = Tail(tcp_handler_nodo[n])
    /\ Head(tcp_handler_nodo[n]).id_cuenta = c
    /\ \/ /\ Mensaje_from_bytes(Head(tcp_handler_nodo[n]).tipo) = "COMMIT"
          /\ Head(tcp_handler_nodo[n]).commit = "RESTA"
       \/ Mensaje_from_bytes(Head(tcp_handler_nodo[n]).tipo) = "ABORT"

\* C36: an account a replica locked on the Prepare of a Deduct stays locked until
\* the replica handles the Commit or the Abort of a Deduct of that account; no
\* other message clears the lock, in particular not the Commit of a Credit of
\* the same account
C36_LockHeldUntilDeductEnds ==
    [][\A n \in DOMAIN cuentas : \A c \in DOMAIN cuentas[n] :
          Desbloquea(n, c) => ManejaFinDeResta(n, c)]_vars

\* the lock is cleared by Commit and Abort lines only
C36_SoloCommitOAbort ==
    [][\A n \in DOMAIN cuentas : \A c \in DOMAIN cuentas[n] :
          Desbloquea(n, c) =>
              /\ tcp_handler_nodo[n] # <<>>
              /\ tcp_handler_nodo'[n] = Tail(tcp_handler_nodo[n])
              /\ Head(tcp_handler_nodo[n]).id_cuenta = c
              /\ Mensaje_from_bytes(Head(tcp_handler_nodo[n]).tipo)
                     \in {"COMMIT", "ABORT"}]_vars

\* the machine of order p has read an Error: it never prepared the coffee, or it
\* threw the prepared coffee away
RecibioError(p) == pc_cafetera'[p] \in {"no_ejecutado", "desechado"}

\* the step is the Nodo of order p, not the coordinator's and offline, reading
\* the machine's Restar
RestarDesconectado(p) ==
    /\ udp_al_nodo[p] = "RESTAR"
    /\ udp_al_nodo'[p] # "RESTAR"
    /\ nodo_vivo[NodoDePedido(p)]
    /\ ~nodo_conectado[NodoDePedido(p)]
    /\ NodoDePedido(p) # id_coordinador[NodoDePedido(p)]

\* the step is Nodo n reading the end of its coordinator's stream
FinDelCoordinador(n) ==
    /\ Lee(n, "FIN")
    /\ tcp_handler_nodo'[n] = Tail(tcp_handler_nodo[n])

\* C37: a Restar that reaches a Nodo that is not the coordinator's while it is
\* disconnected is answered with Error, creates no transaction and sends no
\* Starter; the Deducts of a Nodo that are in Wait, Locked or WaitCommit when its
\* coordinator's stream ends are set to Abort and their machines are sent Error
C37_DisconnectedNodeRefusesDeducts ==
    [][/\ \A p \in DOMAIN pedidos :
              RestarDesconectado(p) =>
                  /\ RecibioError(p)
                  /\ transacciones_resta' = transacciones_resta
                  /\ id_orden' = id_orden
                  /\ tcp_nodo_handler' = tcp_nodo_handler
                  /\ mailbox' = mailbox
       /\ \A n \in DOMAIN transacciones_resta :
              FinDelCoordinador(n) =>
                  \A id \in DOMAIN transacciones_resta[n] :
                      transacciones_resta[n][id].state \in {"Wait", "Locked", "WaitCommit"}
                          => /\ transacciones_resta'[n][id].state = "Abort"
                             /\ RecibioError(transacciones_resta[n][id].socket)]_vars

\* the operator disconnected the server that is not the coordinator's before its
\* machine sent the Restar: the machine has read Error and the Nodo has no
\* transaction
C37_Witness ==
    \E p \in DOMAIN pedidos :
        /\ pedidos[p].tipo = "RESTA"
        /\ NodoDePedido(p) # ID_CORDINADOR_INICIAL
        /\ desconexiones = 1
        /\ ~nodo_conectado[NodoDePedido(p)]
        /\ pc_cafetera[p] = "no_ejecutado"
        /\ transacciones_resta[NodoDePedido(p)] = EmptyMap
        /\ id_orden[NodoDePedido(p)] = 0

\* the coordinator's stream ended at a Nodo whose machine was preparing the
\* coffee of a Deduct: the Deduct is aborted and the coffee thrown away
C37_LockedAbortada ==
    \E p \in DOMAIN pedidos :
        /\ pc_cafetera[p] = "desechado"
        /\ ~nodo_conectado[NodoDePedido(p)]
        /\ \E id \in DOMAIN transacciones_resta[NodoDePedido(p)] :
               /\ transacciones_resta[NodoDePedido(p)][id].socket = p
               /\ transacciones_resta[NodoDePedido(p)][id].state = "Abort"

\* the step is BullyListener n, online, handling the Coordinator datagram d
ManejaCoordinator(n, d) ==
    /\ proceso_vivo[n] /\ proceso_vivo'[n]
    /\ bully_conectado[n]
    /\ udp_bully' = udp_bully (-) SetToBag({d})

\* the online BullyListeners that hold soy_coordinador
Lideres == { n \in Procesos : proceso_vivo[n] /\ bully_conectado[n] /\ soy_coordinador[n] }

\* no Coordinator datagram is on its way
CoordinatorEntregado == \A d \in BagToSet(udp_bully) : d.tipo # "COORDINATOR"

\* after handling Coordinator(src) the listener is at rest and holds
\* soy_coordinador exactly when src is its own id
FlagSigueAlAnuncio ==
    \A n \in Procesos : \A d \in Llegan(n, "COORDINATOR") :
        ManejaCoordinator(n, d) =>
            /\ estado'[n] = "NotExecuting"
            /\ soy_coordinador'[n] = (d.id_nodo = n)

\* C38: after a BullyListener handles Coordinator(src) its state is
\* NotExecuting and its soy_coordinador flag equals (src = own id), so that,
\* once a Coordinator announcement has been delivered to every connected
\* server, at most one connected server holds soy_coordinador and answers Ping
\* with PingCord
C38_CoordinatorSetsLeaderFlag == [][FlagSigueAlAnuncio]_vars

\* the consequence C38 draws: once every Coordinator datagram has been handled,
\* at most one online listener holds soy_coordinador
C38_UnSoloLider == CoordinatorEntregado => Cardinality(Lideres) <= 1

\* ------------------------------------------------------------------ overlapping elections
\* the servers the operator disconnects and connects again: neither the first
\* coordinator nor the server of the highest id
ServidoresDelOperador ==
    { n \in Procesos : n # ID_CORDINADOR_INICIAL /\ n < CANT_MAX_NODOS }

\* everything of the elections so far is handled but a StartElection that has
\* just reached BullyListener n: the sleep of an earlier StartElection of n is
\* at its end
SleepAnteriorTermina(n) ==
    /\ timeouts[n] > 0
    /\ start_election[n] > 0
    /\ \A d \in BagToSet(udp_bully) : d.tipo \notin {"ELECTION", "OKEY"}
    /\ \A m \in DOMAIN proceso_vivo : (proceso_vivo[m] /\ m # n) => start_election[m] = 0
    /\ \A m \in DOMAIN proceso_vivo :
           (proceso_vivo[m] /\ nodo_vivo[m]) =>
               \A i \in DOMAIN tcp_handler_nodo[m] : tcp_handler_nodo[m][i] # FIN

\* Handler<StartElection> and then Handler<TimeoutHandler> for the sleep of an
\* earlier StartElection, which ends before any answer to the Election just
\* sent can arrive: the TimeoutHandler carries nothing that tells the sleeps
\* apart and finds estado = WaitingOkey
Bully_StartElection_TimeoutHandler(n) ==
    /\ proceso_vivo[n]
    /\ SleepAnteriorTermina(n)
    /\ start_election' = [start_election EXCEPT ![n] = @ - 1]
    /\ soy_coordinador' = [soy_coordinador EXCEPT ![n] = TRUE]
    /\ udp_bully' =
           SenderToUdp(SenderToUdp(udp_bully, bully_conectado[n], n, "ELECTION",
                                   { i \in Procesos : i > n }),
                       bully_conectado[n], n, "COORDINATOR", Procesos)
    /\ estado' = [estado EXCEPT ![n] = "NotExecuting"]
    /\ UNCHANGED <<timeouts, bully_conectado, set_state_bully, new_coordinator>>
    /\ UNCHANGED bullyFrame

\* the coordinator's process is killed after the operator's CONECTAR, once every
\* message of the reconnection has been handled; sleeps may still be pending
MatarTrasConectar(l) ==
    /\ conexiones > 0
    /\ udp_bully = EmptyBag
    /\ mailbox = <<>>
    /\ por_aceptar = <<>>
    /\ \A m \in Procesos :
           /\ set_state_bully[m] = <<>>
           /\ new_coordinator[m] = <<>>
           /\ start_election[m] = 0
           /\ tcp_handler_nodo[m] = <<>>
           /\ tcp_nodo_handler[m] = <<>>
    /\ Matar(l)

\* the three servers are up, the operator disconnects and connects
\* ServidorDelOperador, the coordinator's process may be killed
NextSolape ==
    \/ Coordinador_DisconnectNodo
    \/ Coordinador_SetState
    \/ Coordinador_AddNodo
    \/ \E n \in Procesos : Coordinador_accept(n)
    \/ \E n \in Procesos : NodoHandler_finished(n)
    \/ \E n \in Procesos : NodoDeOperadorStep(n)
    \/ \E n \in Procesos : BullyDeOperadorStep(n)
    \/ \E n \in Procesos : Bully_StartElection_TimeoutHandler(n)
    \/ \E n \in ServidoresDelOperador : ReceiveFromCafetera_DESCONECTAR(n)
    \/ \E n \in ServidoresDelOperador : ReceiveFromCafetera_CONECTAR(n)
    \/ \E l \in Procesos : MatarTrasConectar(l)

SpecSolape == InitReconexion /\ [][NextSolape]_vars

\* BullyListener n sends Coordinator(n) in this step
AnunciaCoordinator(n) ==
    \E d \in BagToSet(udp_bully') :
        /\ d.tipo = "COORDINATOR"
        /\ d.id_nodo = n
        /\ CopiesIn(d, udp_bully') > CopiesIn(d, udp_bully)

\* BullyListener n proclaims itself in this step: soy_coordinador becomes true
\* or Coordinator(n) is sent
SeProclama(n) == (~soy_coordinador[n] /\ soy_coordinador'[n]) \/ AnunciaCoordinator(n)

\* BullyListener n holds the record of an Okey (estado = WaitingCoordinator) and
\* a server of higher id runs and is connected
RespondidoPorMayor(n) ==
    /\ estado[n] = "WaitingCoordinator"
    /\ \E h \in DOMAIN proceso_vivo : h > n /\ proceso_vivo[h] /\ bully_conectado[h]

\* C39: a BullyListener that has received Okey from a server of higher id while
\* it waited in an election does not proclaim itself: no step sets its
\* soy_coordinador or sends Coordinator(self) while a running, connected server
\* of higher id has answered its Election, also when several StartElection and
\* several pending sleeps overlap at that listener
C39_NoSelfPromotionAfterOk ==
    [][\A n \in DOMAIN estado : RespondidoPorMayor(n) => ~SeProclama(n)]_vars

\* the part of C39 for one sleep at a time: the TimeoutHandler of a listener
\* whose estado is WaitingCoordinator proclaims nothing
C39_UnSoloSleep ==
    [][\A n \in DOMAIN estado :
          (RespondidoPorMayor(n) /\ timeouts'[n] < timeouts[n]) => ~SeProclama(n)]_vars

\* ------------------------------------------------------------------ kinds of line
\* the NodoHandler of Nodo n takes a line of the Nodo in this step
NodoHandlerClasifica(n) ==
    /\ handler_vivo[n]
    /\ tcp_nodo_handler[n] # <<>>
    /\ Head(tcp_nodo_handler[n]) # FIN
    /\ tcp_nodo_handler'[n] = Tail(tcp_nodo_handler[n])
    /\ Len(mailbox') = Len(mailbox) + 1

\* Nodo n takes a line of its coordinator in this step
NodoClasifica(n) ==
    /\ nodo_vivo[n]
    /\ tcp_handler_nodo[n] # <<>>
    /\ Head(tcp_handler_nodo[n]) # FIN
    /\ tcp_handler_nodo'[n] = Tail(tcp_handler_nodo[n])

\* the receiver of the line takes it for the kind it was written with
ClasificadaComoEscrita(linea) == Mensaje_from_bytes(linea.tipo) = linea.tipo

\* C40: for every kind of the protocol between Nodo and Coordinador (0 = Starter
\* to 10 = Disconnect) a line written with that kind is classified by its
\* receiver as the same kind: no NodoHandler and no Nodo takes a line for
\* another kind than the one it was written with
C40_KindClassifiedAsWritten ==
    [][\A n \in DOMAIN tcp_nodo_handler :
          /\ NodoHandlerClasifica(n) => ClasificadaComoEscrita(Head(tcp_nodo_handler[n]))
          /\ NodoClasifica(n) => ClasificadaComoEscrita(Head(tcp_handler_nodo[n]))]_vars

\* the part of C40 for the kinds written with one digit: each is read back as
\* itself, and Disconnect is the only kind read as another
C40_UnDigito ==
    /\ \A k \in TiposDeMensaje \ {"DISCONNECT"} : Mensaje_from_bytes(k) = k
    /\ \A k \in TiposDeMensaje : \A j \in TiposDeMensaje :
           (to_bytes(k) < 10 /\ to_bytes(j) < 10 /\ k # j) =>
               Mensaje_from_bytes(k) # Mensaje_from_bytes(j)

\* the part of C40 for the lines a Nodo receives: the Coordinador writes no
\* Disconnect line
C40_NodoClasifica ==
    [][\A n \in DOMAIN tcp_handler_nodo :
          NodoClasifica(n) => ClasificadaComoEscrita(Head(tcp_handler_nodo[n]))]_vars

====
